---- MODULE Spec2Model ----
(***************************************************************************)
(* A model of kjson's core: Value::parse_slice (src/src/value.rs), the     *)
(* stringifier Value::stringify_value, Number (src/src/number.rs), Dict    *)
(* (src/src/dict.rs), Stack (src/src/stack.rs) and Context                 *)
(* (src/src/context.rs).                                                   *)
(*                                                                         *)
(* Bytes are the integers 0..255.  A text is a sequence of bytes.  The     *)
(* parser is a state machine: one action per parsing subroutine or loop    *)
(* iteration, the call stack of the recursive descent kept in `frames`.    *)
(***************************************************************************)
EXTENDS Integers, Sequences, FiniteSets, TLC

(***************************************************************************)
(* Byte literals used by the source (b'"', b'\\', ...), by name.           *)
(***************************************************************************)
ch == [ quote |-> 34, backslash |-> 92, slash |-> 47,
        space |-> 32, tab |-> 9, lf |-> 10, cr |-> 13,
        minus |-> 45, plus |-> 43, dot |-> 46, zero |-> 48, nine |-> 57,
        comma |-> 44, colon |-> 58,
        lbracket |-> 91, rbracket |-> 93, lbrace |-> 123, rbrace |-> 125,
        a |-> 97, b |-> 98, e |-> 101, f |-> 102, l |-> 108, n |-> 110,
        r |-> 114, s |-> 115, t |-> 116, u |-> 117,
        A |-> 65, E |-> 69, F |-> 70 ]

\* "null", "true", "false" as bytes (value.rs:152-154)
LitNull  == <<110, 117, 108, 108>>
LitTrue  == <<116, 114, 117, 101>>
LitFalse == <<102, 97, 108, 115, 101>>

(***************************************************************************)
(* Sequence helpers: Rust slices &bytes[i..] and &bytes[i..j], 0-based.    *)
(***************************************************************************)
SliceFrom(bytes, i) == SubSeq(bytes, i + 1, Len(bytes))
Slice(bytes, i, j) == SubSeq(bytes, i + 1, j)
\* bytes[i] with a 0-based index
At(bytes, i) == bytes[i + 1]

RECURSIVE Concat(_)
\* concatenation of a sequence of texts
Concat(ss) == IF ss = <<>> THEN <<>> ELSE Head(ss) \o Concat(Tail(ss))

RECURSIVE Repeat(_, _)
Repeat(x, k) == IF k <= 0 THEN <<>> ELSE <<x>> \o Repeat(x, k - 1)

(***************************************************************************)
(* Number (number.rs:3-8).  TLC's integers are 32 bits wide, so an i64 is  *)
(* kept as sign and decimal digits, and an f64 as a normalised decimal:    *)
(* digits d1..dn (d1 # 0, dn # 0) and the position pt of the decimal       *)
(* point, the value being 0.d1..dn * 10^pt; zero has no digits and keeps   *)
(* its sign bit.  The decimal is the f64's shortest round-tripping         *)
(* representation, which is what str::parse::<f64> followed by Display     *)
(* yields for every lexeme of at most 15 significant digits in the normal  *)
(* range.                                                                  *)
(***************************************************************************)
NumInt(neg, mag) == [k |-> "Int", neg |-> neg, mag |-> mag]
NumFloat(neg, digs, pt) == [k |-> "Float", neg |-> neg, digs |-> digs, pt |-> pt]

IsDigit(b) == b >= 48 /\ b <= 57

RECURSIVE StripLeadingZeros(_)
StripLeadingZeros(d) ==
    IF d # <<>> /\ Head(d) = 0 THEN StripLeadingZeros(Tail(d)) ELSE d

RECURSIVE StripTrailingZeros(_)
StripTrailingZeros(d) ==
    IF d # <<>> /\ d[Len(d)] = 0 THEN StripTrailingZeros(SubSeq(d, 1, Len(d) - 1)) ELSE d

\* the count of leading zeros of a digit sequence
LeadingZeros(d) == Len(d) - Len(StripLeadingZeros(d))

RECURSIVE DigitsLess(_, _)
\* x < y for two digit sequences of the same length, most significant first
DigitsLess(x, y) ==
    IF x = <<>> THEN FALSE
    ELSE IF Head(x) # Head(y) THEN Head(x) < Head(y)
    ELSE DigitsLess(Tail(x), Tail(y))

\* x <= y for two natural numbers given by digits without leading zeros
MagLeq(x, y) ==
    IF Len(x) # Len(y) THEN Len(x) < Len(y) ELSE ~DigitsLess(y, x)

\* i64::MAX = 9223372036854775807 and |i64::MIN| = 9223372036854775808
I64MaxMag == <<9,2,2,3,3,7,2,0,3,6,8,5,4,7,7,5,8,0,7>>
I64MinMag == <<9,2,2,3,3,7,2,0,3,6,8,5,4,7,7,5,8,0,8>>

\* the decimal digits (0..9) of a run of ASCII digit bytes
DigitValues(bytes) == [i \in 1..Len(bytes) |-> bytes[i] - 48]

(***************************************************************************)
(* Results.  A subroutine returns Ok(v) or Err(e); an unwrap of None, an   *)
(* unwrap of Err, a failed assert_eq! or a slice index out of range aborts *)
(* the call (Panic).                                                       *)
(***************************************************************************)
Ok(v) == [kind |-> "ok", v |-> v]
Err(e) == [kind |-> "err", e |-> e]
Panic == [kind |-> "panic"]
NoRet == [kind |-> "none"]

\* error.rs:2-16
ParseError ==
    { "ExpectValue", "InvalidValue", "RootNotSingular", "NumberTooBig",
      "MissQuotationMark", "InvalidStringEscape", "InvalidStringChar",
      "InvalidUnicodeHex", "InvalidUnicodeSurrogate", "MissCommaOrSquareBracket",
      "MissKey", "MissColon", "MissCommaOrCurlyBracket" }

(***************************************************************************)
(* Value (value.rs:9-16).  An Object is a Dict, a BTreeMap: its members in *)
(* ascending key order, kept here as a sequence of [k, v] records.         *)
(***************************************************************************)
VNull == [t |-> "Null"]
VBool(b) == [t |-> "Bool", b |-> b]
VNumber(n) == [t |-> "Number", n |-> n]
VString(s) == [t |-> "String", s |-> s]
VArray(a) == [t |-> "Array", a |-> a]
VObject(o) == [t |-> "Object", o |-> o]

(***************************************************************************)
(* str::parse::<i64> of a lexeme -?digits (value.rs:222).                  *)
(***************************************************************************)
\* the range check with i64::MAX as the limit of both signs
I64CheckedSymmetric(neg, mag) ==
    IF MagLeq(mag, I64MaxMag)
      THEN [ok |-> TRUE, num |-> NumInt(neg /\ mag # <<0>>, mag)]
      ELSE [ok |-> FALSE]

\* the i64 of sign and magnitude, if it fits
I64Checked(neg, mag) ==
    IF (IF neg THEN MagLeq(mag, I64MinMag) ELSE MagLeq(mag, I64MaxMag))
      THEN [ok |-> TRUE, num |-> NumInt(neg /\ mag # <<0>>, mag)]
      ELSE [ok |-> FALSE]

\* the magnitude written by digits, which are not all zeros unless mag0 is empty
I64Magnitude(neg, mag0) == I64Checked(neg, IF mag0 = <<>> THEN <<0>> ELSE mag0)

I64Digits(neg, digits) ==
    IF digits = <<>> \/ \E i \in 1..Len(digits) : ~IsDigit(digits[i])
      THEN [ok |-> FALSE]
      ELSE I64Magnitude(neg, StripLeadingZeros(DigitValues(digits)))

I64FromStr(str) ==
    IF str # <<>> /\ str[1] = ch.minus THEN I64Digits(TRUE, Tail(str))
    ELSE I64Digits(FALSE, str)

(***************************************************************************)
(* str::parse::<f64> of a lexeme of the number grammar (value.rs:226).     *)
(* The result is a finite f64 or an infinity; Rust's parser never fails on *)
(* a lexeme of this grammar.                                               *)
(***************************************************************************)
\* an exponent's magnitude saturates here: beyond it every lexeme the model
\* can hold is an infinity or a zero already
ExpSaturate == 10000

RECURSIVE NatOfDigits(_, _)
\* the number written by the digits d, after the prefix worth acc
NatOfDigits(d, acc) ==
    IF d = <<>> THEN acc
    ELSE IF acc * 10 + Head(d) >= ExpSaturate THEN ExpSaturate
    ELSE NatOfDigits(Tail(d), acc * 10 + Head(d))

RECURSIVE FracLess(_, _)
\* 0.x < 0.y for two digit sequences without trailing zeros
FracLess(x, y) ==
    IF y = <<>> THEN FALSE
    ELSE IF x = <<>> THEN TRUE
    ELSE IF Head(x) # Head(y) THEN Head(x) < Head(y)
    ELSE FracLess(Tail(x), Tail(y))

\* the count of ASCII digits of bytes from the 0-based index start on
RECURSIVE CountDigits(_, _)
CountDigits(bytes, start) ==
    IF start < Len(bytes) /\ IsDigit(At(bytes, start))
      THEN 1 + CountDigits(bytes, start + 1)
      ELSE 0

\* halfway between f64::MAX and 2^1024, as 0.d1d2.. * 10^309: from here on a
\* decimal rounds to infinity
F64OverflowDigits == <<1,7,9,7,6,9,3,1,3,4,8,6,2,3,1,5,8,0,8>>
F64OverflowPt == 309
\* half the least subnormal, as 0.d1d2.. * 10^-323: below it a decimal rounds
\* to zero
F64UnderflowDigits == <<2,4,7,0,3,2,8,2,2,9,2,0,6,2,3,2,8>>
F64UnderflowPt == 0 - 323

\* the f64 nearest to 0.digs * 10^pt, digs without leading or trailing zeros
F64Round(neg, digs, pt) ==
    IF digs = <<>> THEN NumFloat(neg, <<>>, 0)
    ELSE IF pt > F64OverflowPt
              \/ (pt = F64OverflowPt /\ ~FracLess(digs, F64OverflowDigits))
      THEN [k |-> "Inf", neg |-> neg]
    ELSE IF pt < F64UnderflowPt
              \/ (pt = F64UnderflowPt /\ FracLess(digs, F64UnderflowDigits))
      THEN NumFloat(neg, <<>>, 0)
    ELSE NumFloat(neg, digs, pt)

\* the f64 of the digits all, the decimal point after the first nint of them,
\* times 10^exp
F64Decimal(neg, all, nint, exp) ==
    F64Round(neg, StripTrailingZeros(StripLeadingZeros(all)),
             nint + exp - LeadingZeros(all))

\* the exponent part of str, which starts at the 0-based index i2 if there is one
F64Exponent(str, i2) ==
    IF i2 < Len(str) /\ At(str, i2) \in {ch.e, ch.E}
      THEN IF i2 + 1 < Len(str) /\ At(str, i2 + 1) = ch.minus
             THEN 0 - NatOfDigits(DigitValues(SliceFrom(str, i2 + 2)), 0)
           ELSE IF i2 + 1 < Len(str) /\ At(str, i2 + 1) = ch.plus
             THEN NatOfDigits(DigitValues(SliceFrom(str, i2 + 2)), 0)
           ELSE NatOfDigits(DigitValues(SliceFrom(str, i2 + 1)), 0)
      ELSE 0

\* str's fraction has nfrac digits after the '.' at i1
F64Fraction(str, neg, i0, i1, nfrac) ==
    F64Decimal(neg,
               DigitValues(Slice(str, i0, i1)) \o DigitValues(Slice(str, i1 + 1, i1 + 1 + nfrac)),
               i1 - i0, F64Exponent(str, i1 + 1 + nfrac))

\* str's integer part is the digits from i0 up to i1
F64Integer(str, neg, i0, i1) ==
    IF i1 < Len(str) /\ At(str, i1) = ch.dot
      THEN F64Fraction(str, neg, i0, i1, CountDigits(str, i1 + 1))
      ELSE F64Decimal(neg, DigitValues(Slice(str, i0, i1)), i1 - i0, F64Exponent(str, i1))

F64Signed(str, neg, i0) == F64Integer(str, neg, i0, i0 + CountDigits(str, i0))

F64FromStr(str) ==
    IF str # <<>> /\ str[1] = ch.minus THEN F64Signed(str, TRUE, 1)
    ELSE F64Signed(str, FALSE, 0)

\* f64::is_finite (value.rs:228)
IsFinite(num) == num.k = "Float"

(***************************************************************************)
(* impl Display for Number (number.rs:10-18): i64's and f64's Display.     *)
(* f64's Display writes the shortest round-tripping decimal in positional  *)
(* notation, never with an exponent and with no ".0" for an integral value.*)
(***************************************************************************)
AsciiDigits(d) == [i \in 1..Len(d) |-> d[i] + 48]

I64Display(n) == (IF n.neg THEN <<ch.minus>> ELSE <<>>) \o AsciiDigits(n.mag)

F64Display(n) ==
    LET len == Len(n.digs)
        sign == IF n.neg THEN <<ch.minus>> ELSE <<>>
    IN  IF n.digs = <<>> THEN sign \o <<ch.zero>>
        ELSE IF n.pt >= len
          THEN sign \o AsciiDigits(n.digs) \o Repeat(ch.zero, n.pt - len)
        ELSE IF n.pt > 0
          THEN sign \o AsciiDigits(SubSeq(n.digs, 1, n.pt)) \o <<ch.dot>>
                    \o AsciiDigits(SubSeq(n.digs, n.pt + 1, len))
        ELSE sign \o <<ch.zero, ch.dot>> \o Repeat(ch.zero, 0 - n.pt)
                  \o AsciiDigits(n.digs)

NumberDisplay(n) ==
    IF n.k = "Int" THEN I64Display(n)
    ELSE IF n.k = "UInt" THEN AsciiDigits(n.mag)
    ELSE F64Display(n)

(***************************************************************************)
(* #[derive(PartialEq)] for Number (number.rs:3): the same variant and     *)
(* equal payloads; f64's == holds 0.0 and -0.0 equal.                      *)
(***************************************************************************)
NumberEq(x, y) ==
    /\ x.k = y.k
    /\ IF x.k = "Float"
         THEN /\ x.digs = y.digs
              /\ x.pt = y.pt
              /\ (x.digs # <<>> => x.neg = y.neg)
         ELSE x.neg = y.neg /\ x.mag = y.mag

(***************************************************************************)
(* Parser subroutines that are straight-line code over the Context's       *)
(* remaining bytes.  Each yields the new remaining bytes and the result.   *)
(***************************************************************************)
\* the whitespace test with the carriage return forgotten
IsWhitespaceNoCr(c) == c = ch.space \/ c = ch.tab \/ c = ch.lf

\* value.rs:117: the bytes parse_whitespace skips
IsWhitespace(c) == c = ch.space \/ c = ch.tab \/ c = ch.lf \/ c = ch.cr

RECURSIVE parse_whitespace(_)
\* value.rs:114-124: the remaining bytes from the first non-whitespace byte on
parse_whitespace(bytes) ==
    IF bytes # <<>> /\ IsWhitespace(Head(bytes))
      THEN parse_whitespace(Tail(bytes))
      ELSE bytes

\* context.rs:16-20: the byte stepped over, if any, and the remaining bytes
step(bytes) ==
    IF bytes = <<>> THEN [some |-> FALSE, bytes |-> bytes]
    ELSE [some |-> TRUE, b |-> Head(bytes), bytes |-> Tail(bytes)]

\* the literal test that steps over the first byte before it fails
check_literal_consuming(bytes, literal) ==
    IF Len(bytes) < Len(literal) \/ Slice(bytes, 0, Len(literal)) # literal
      THEN [bytes |-> SliceFrom(bytes, 1), ok |-> FALSE]
      ELSE [bytes |-> SliceFrom(bytes, Len(literal)), ok |-> TRUE]

\* the literal test on the first byte and the length alone
check_literal_by_length(bytes, literal) ==
    IF Len(bytes) < Len(literal)
      THEN [bytes |-> bytes, ok |-> FALSE]
      ELSE [bytes |-> SliceFrom(bytes, Len(literal)), ok |-> TRUE]

\* value.rs:140-147
check_literal(bytes, literal) ==
    IF Len(bytes) < Len(literal) \/ Slice(bytes, 0, Len(literal)) # literal
      THEN [bytes |-> bytes, ok |-> FALSE]
      ELSE [bytes |-> SliceFrom(bytes, Len(literal)), ok |-> TRUE]

\* value.rs:149-157
parse_literal(bytes) ==
    IF bytes = <<>> THEN [bytes |-> bytes, ret |-> Panic]
    ELSE LET lit == IF Head(bytes) = ch.n THEN LitNull
                    ELSE IF Head(bytes) = ch.t THEN LitTrue
                    ELSE LitFalse
             val == IF Head(bytes) = ch.n THEN VNull
                    ELSE IF Head(bytes) = ch.t THEN VBool(TRUE)
                    ELSE VBool(FALSE)
             chk == check_literal(bytes, lit)
         IN  IF Head(bytes) \notin {ch.n, ch.t, ch.f}
               THEN [bytes |-> bytes, ret |-> Err("InvalidValue")]
             ELSE IF chk.ok THEN [bytes |-> chk.bytes, ret |-> Ok(val)]
             ELSE [bytes |-> chk.bytes, ret |-> Err("InvalidValue")]

\* value.rs:159-171
skip_following_digits(bytes, start) ==
    IF start >= Len(bytes) THEN 0 ELSE CountDigits(bytes, start)

\* the conversion with the i64 attempt left out
NumberConvertFloatOnly(rest, is_float, int, num) ==
    IF IsFinite(num) THEN [bytes |-> rest, ret |-> Ok(VNumber(num))]
    ELSE [bytes |-> rest, ret |-> Err("NumberTooBig")]

\* value.rs:218-235: the lexeme is the first index_end bytes
NumberConvert(rest, is_float, int, num) ==
    IF ~is_float /\ int.ok THEN [bytes |-> rest, ret |-> Ok(VNumber(int.num))]
    ELSE IF IsFinite(num) THEN [bytes |-> rest, ret |-> Ok(VNumber(num))]
    ELSE [bytes |-> rest, ret |-> Err("NumberTooBig")]

NumberEnd(bytes, index_end, is_float) ==
    NumberConvert(SliceFrom(bytes, index_end), is_float,
                  I64FromStr(Slice(bytes, 0, index_end)),
                  F64FromStr(Slice(bytes, 0, index_end)))

\* value.rs:211-215: the exponent's digits start at index_end
NumberExpDigits(bytes, index_end, len_int) ==
    IF len_int = 0 THEN [bytes |-> bytes, ret |-> Err("InvalidValue")]
    ELSE NumberEnd(bytes, index_end + len_int, TRUE)

\* value.rs:203-216
NumberExponent(bytes, index_end, is_float) ==
    IF index_end < Len(bytes)
         /\ (At(bytes, index_end) = ch.e \/ At(bytes, index_end) = ch.E)
      THEN IF index_end + 1 < Len(bytes)
                /\ (At(bytes, index_end + 1) = ch.plus
                      \/ At(bytes, index_end + 1) = ch.minus)
             THEN NumberExpDigits(bytes, index_end + 2,
                                  skip_following_digits(bytes, index_end + 2))
             ELSE NumberExpDigits(bytes, index_end + 1,
                                  skip_following_digits(bytes, index_end + 1))
      ELSE NumberEnd(bytes, index_end, is_float)

\* the fraction given up when it has no digit: the integer part alone is the
\* lexeme and the '.' is left as trailing input
NumberFracDigitsBacktracking(bytes, index_end, len_int) ==
    IF len_int = 0 THEN NumberEnd(bytes, index_end - 1, FALSE)
    ELSE NumberExponent(bytes, index_end + len_int, TRUE)

\* value.rs:196-200: the fraction's digits start at index_end
NumberFracDigits(bytes, index_end, len_int) ==
    IF len_int = 0 THEN [bytes |-> bytes, ret |-> Err("InvalidValue")]
    ELSE NumberExponent(bytes, index_end + len_int, TRUE)

\* value.rs:192-201
NumberFraction(bytes, index_end) ==
    IF index_end < Len(bytes) /\ At(bytes, index_end) = ch.dot
      THEN NumberFracDigits(bytes, index_end + 1,
                            skip_following_digits(bytes, index_end + 1))
      ELSE NumberExponent(bytes, index_end, FALSE)

\* the integer part with the test for a leading zero left out
NumberIntegerLax(bytes, index_end, len_int) ==
    IF len_int = 0 THEN [bytes |-> bytes, ret |-> Err("InvalidValue")]
    ELSE NumberFraction(bytes, index_end + len_int)

\* value.rs:181-190
NumberInteger(bytes, index_end, len_int) ==
    IF len_int = 0 THEN [bytes |-> bytes, ret |-> Err("InvalidValue")]
    ELSE IF At(bytes, index_end) = ch.zero /\ len_int > 1
      THEN [bytes |-> bytes, ret |-> Err("RootNotSingular")]
    ELSE NumberFraction(bytes, index_end + len_int)

\* value.rs:173-236
parse_number(bytes) ==
    IF bytes = <<>> THEN [bytes |-> bytes, ret |-> Panic]
    ELSE IF Head(bytes) = ch.minus
      THEN NumberInteger(bytes, 1, skip_following_digits(bytes, 1))
    ELSE NumberInteger(bytes, 0, skip_following_digits(bytes, 0))

(***************************************************************************)
(* String decoding helpers.                                                *)
(***************************************************************************)
HexDigit(b) ==
    IF b >= 48 /\ b <= 57 THEN b - 48
    ELSE IF b >= 97 /\ b <= 102 THEN b - 97 + 10
    ELSE IF b >= 65 /\ b <= 70 THEN b - 65 + 10
    ELSE 0 - 1

\* value.rs:238-252: the code unit, or -1 for None
hex4_to_u32(hex4) ==
    IF \E i \in 1..4 : HexDigit(hex4[i]) < 0 THEN 0 - 1
    ELSE ((HexDigit(hex4[1]) * 16 + HexDigit(hex4[2])) * 16 + HexDigit(hex4[3])) * 16
           + HexDigit(hex4[4])

\* char::from_u32 is Some exactly for a Unicode scalar value (value.rs:255)
IsScalar(c) == c >= 0 /\ c <= 1114111 /\ ~(c >= 55296 /\ c <= 57343)

\* char::encode_utf8 (value.rs:257)
Utf8Bytes(c) ==
    IF c < 128 THEN <<c>>
    ELSE IF c < 2048 THEN <<192 + (c \div 64), 128 + (c % 64)>>
    ELSE IF c < 65536
      THEN <<224 + (c \div 4096), 128 + ((c \div 64) % 64), 128 + (c % 64)>>
    ELSE <<240 + (c \div 262144), 128 + ((c \div 4096) % 64),
           128 + ((c \div 64) % 64), 128 + (c % 64)>>

\* value.rs:254-264: the stack after the push, or the error
encode_utf8(stack, c) ==
    IF IsScalar(c) THEN [ok |-> TRUE, stack |-> stack \o Utf8Bytes(c)]
    ELSE [ok |-> FALSE, stack |-> stack]

IsCont(b) == b >= 128 /\ b <= 191

RECURSIVE IsUtf8(_)
\* String::from_utf8 is Ok exactly for well-formed UTF-8 (value.rs:351)
IsUtf8(bs) ==
    IF bs = <<>> THEN TRUE
    ELSE LET b1 == bs[1]
             n == Len(bs)
         IN  IF b1 < 128 THEN IsUtf8(Tail(bs))
             ELSE IF b1 >= 194 /\ b1 <= 223
               THEN n >= 2 /\ IsCont(bs[2]) /\ IsUtf8(SubSeq(bs, 3, n))
             ELSE IF b1 >= 224 /\ b1 <= 239
               THEN /\ n >= 3
                    /\ IsCont(bs[2]) /\ IsCont(bs[3])
                    /\ (b1 = 224 => bs[2] >= 160)
                    /\ (b1 = 237 => bs[2] <= 159)
                    /\ IsUtf8(SubSeq(bs, 4, n))
             ELSE IF b1 >= 240 /\ b1 <= 244
               THEN /\ n >= 4
                    /\ IsCont(bs[2]) /\ IsCont(bs[3]) /\ IsCont(bs[4])
                    /\ (b1 = 240 => bs[2] >= 144)
                    /\ (b1 = 244 => bs[2] <= 143)
                    /\ IsUtf8(SubSeq(bs, 5, n))
             ELSE FALSE

\* stack.rs:27-35: the bytes popped and the stack left, or a panic
pop_bytes(stack, size) ==
    IF size <= Len(stack)
      THEN [ok |-> TRUE, removed |-> SubSeq(stack, Len(stack) - size + 1, Len(stack)),
            stack |-> SubSeq(stack, 1, Len(stack) - size)]
      ELSE [ok |-> FALSE, removed |-> <<>>, stack |-> stack]

(***************************************************************************)
(* Dict (dict.rs): a BTreeMap<String, Value>.  String's Ord is the         *)
(* lexicographic order of the bytes.                                       *)
(***************************************************************************)
RECURSIVE KeyLess(_, _)
KeyLess(x, y) ==
    IF y = <<>> THEN FALSE
    ELSE IF x = <<>> THEN TRUE
    ELSE IF Head(x) # Head(y) THEN Head(x) < Head(y)
    ELSE KeyLess(Tail(x), Tail(y))

\* Dict::new (dict.rs:62-64)
DictNew == <<>>

\* Dict::len (dict.rs:66-68)
DictLen(d) == Len(d)

\* the position of key in d, or 0
DictFind(d, key) ==
    IF \E i \in 1..Len(d) : d[i].k = key
      THEN CHOOSE i \in 1..Len(d) : d[i].k = key
      ELSE 0

\* the insertion that keeps the value of a key already present
DictInsertKeepFirst(d, key, value) ==
    LET before == Cardinality({i \in 1..Len(d) : KeyLess(d[i].k, key)})
    IN  IF DictFind(d, key) # 0 THEN d
        ELSE SubSeq(d, 1, before) \o <<[k |-> key, v |-> value]>>
               \o SubSeq(d, before + 1, Len(d))

\* Dict::insert (dict.rs:78-83), BTreeMap::insert: overwrite the value of a
\* key already present, else place the member at its position in key order
DictInsert(d, key, value) ==
    LET at == DictFind(d, key)
        before == Cardinality({i \in 1..Len(d) : KeyLess(d[i].k, key)})
    IN  IF at # 0 THEN [d EXCEPT ![at] = [k |-> key, v |-> value]]
        ELSE SubSeq(d, 1, before) \o <<[k |-> key, v |-> value]>>
               \o SubSeq(d, before + 1, Len(d))

(***************************************************************************)
(* The stringifier (value.rs:434-544).                                     *)
(***************************************************************************)
HexUpper(d) == IF d < 10 THEN 48 + d ELSE 65 + (d - 10)

\* format!("\\u{byte:04X}") (value.rs:481)
EscapeU(byte) ==
    <<ch.backslash, ch.u, ch.zero, ch.zero, HexUpper(byte \div 16), HexUpper(byte % 16)>>

\* one arm of the match of value.rs:450-488
EscapeByte(byte) ==
    IF byte = ch.quote THEN <<ch.backslash, ch.quote>>
    ELSE IF byte = ch.backslash THEN <<ch.backslash, ch.backslash>>
    ELSE IF byte = 98 THEN <<ch.backslash, ch.b>>
    ELSE IF byte = 102 THEN <<ch.backslash, ch.f>>
    ELSE IF byte = ch.lf THEN <<ch.backslash, ch.n>>
    ELSE IF byte = ch.cr THEN <<ch.backslash, ch.r>>
    ELSE IF byte = ch.tab THEN <<ch.backslash, ch.t>>
    ELSE IF byte < 32 THEN EscapeU(byte)
    ELSE <<byte>>

\* value.rs:446-493
stringify_string(s) ==
    <<ch.quote>> \o Concat([i \in 1..Len(s) |-> EscapeByte(s[i])]) \o <<ch.quote>>

RECURSIVE JoinComma(_)
\* the texts of a sequence, a comma between each two
JoinComma(ts) ==
    IF ts = <<>> THEN <<>>
    ELSE IF Len(ts) = 1 THEN ts[1]
    ELSE ts[1] \o <<ch.comma>> \o JoinComma(Tail(ts))

RECURSIVE stringify_value(_)
\* value.rs:435-444, with stringify_array (value.rs:495-510) and
\* stringify_object (value.rs:512-543), which writes each key as it is
\* between two quotes
stringify_value(value) ==
    IF value.t = "Null" THEN LitNull
    ELSE IF value.t = "Bool" THEN (IF value.b THEN LitTrue ELSE LitFalse)
    ELSE IF value.t = "Number" THEN NumberDisplay(value.n)
    ELSE IF value.t = "String" THEN stringify_string(value.s)
    ELSE IF value.t = "Array"
      THEN <<ch.lbracket>>
             \o JoinComma([i \in 1..Len(value.a) |-> stringify_value(value.a[i])])
             \o <<ch.rbracket>>
    ELSE <<ch.lbrace>>
           \o JoinComma([i \in 1..Len(value.o) |->
                 <<ch.quote>> \o value.o[i].k \o <<ch.quote, ch.colon>>
                   \o stringify_value(value.o[i].v)])
           \o <<ch.rbrace>>

(***************************************************************************)
(* impl PartialEq for Value (value.rs:68-89) and for Dict (dict.rs:15-31). *)
(* The comparison yields "true" or "false", or aborts ("panic") when the   *)
(* Dict comparison indexes the other Dict with a key it does not hold      *)
(* (dict.rs:26, dict.rs:41).  `result && (..)` does not evaluate its right *)
(* side once result is false.                                              *)
(***************************************************************************)
RECURSIVE ValueEq(_, _)
RECURSIVE ArrayEqFrom(_, _, _)
RECURSIVE DictEqFrom(_, _, _)

\* the loop of value.rs:79-81 from position i on, result being true so far
ArrayEqFrom(l0, r0, i) ==
    IF i > Len(l0) THEN "true"
    ELSE LET e == ValueEq(l0[i], r0[i])
         IN  IF e = "true" THEN ArrayEqFrom(l0, r0, i + 1) ELSE e

\* the loop of dict.rs:25-27 from the i-th key on, result being true so far
DictEqFrom(self, other, i) ==
    IF i > Len(self) THEN "true"
    ELSE LET at == DictFind(other, self[i].k)
         IN  IF at = 0 THEN "panic"
             ELSE LET e == ValueEq(self[i].v, other[at].v)
                  IN  IF e = "true" THEN DictEqFrom(self, other, i + 1) ELSE e

ValueEq(self, other) ==
    IF self.t # other.t THEN "false"
    ELSE IF self.t = "Null" THEN "true"
    ELSE IF self.t = "Bool" THEN (IF self.b = other.b THEN "true" ELSE "false")
    ELSE IF self.t = "Number"
      THEN (IF NumberEq(self.n, other.n) THEN "true" ELSE "false")
    ELSE IF self.t = "String" THEN (IF self.s = other.s THEN "true" ELSE "false")
    ELSE IF self.t = "Array"
      THEN (IF Len(self.a) # Len(other.a) THEN "false"
            ELSE ArrayEqFrom(self.a, other.a, 1))
    ELSE IF DictLen(self.o) # DictLen(other.o) THEN "false"
    ELSE DictEqFrom(self.o, other.o, 1)

(***************************************************************************)
(* impl Index / IndexMut for Value (value.rs:18-60) and for Dict           *)
(* (dict.rs:33-53).  A read yields Ok(element) or aborts (Panic); an       *)
(* assignment `v[..] = x` yields Ok(the Value after it) or aborts.         *)
(***************************************************************************)
\* value.rs:40-50: v[index], Vec's index aborting beyond the length
index_usize(v, index) ==
    IF v.t # "Array" THEN Panic
    ELSE IF index < Len(v.a) THEN Ok(v.a[index + 1])
    ELSE Panic

\* value.rs:18-28 and dict.rs:33-43: v[key], BTreeMap's index aborting on a
\* key it does not hold
index_str(v, key) ==
    IF v.t # "Object" THEN Panic
    ELSE IF DictFind(v.o, key) # 0 THEN Ok(v.o[DictFind(v.o, key)].v)
    ELSE Panic

\* the assignment by position that drops the elements behind the position
assign_usize_truncating(v, index, x) ==
    IF v.t # "Array" THEN Panic
    ELSE IF index < Len(v.a) THEN Ok(VArray(SubSeq(v.a, 1, index) \o <<x>>))
    ELSE Panic

\* value.rs:52-60: v[index] = x
assign_usize(v, index, x) ==
    IF v.t # "Array" THEN Panic
    ELSE IF index < Len(v.a) THEN Ok(VArray([v.a EXCEPT ![index + 1] = x]))
    ELSE Panic

\* the assignment by key that inserts a key the Object does not hold
assign_str_inserting(v, key, x) ==
    IF v.t # "Object" THEN Panic
    ELSE Ok(VObject(DictInsert(v.o, key, x)))

\* value.rs:30-38 and dict.rs:45-53: v[key] = x, get_mut(key).unwrap()
assign_str(v, key, x) ==
    IF v.t # "Object" THEN Panic
    ELSE IF DictFind(v.o, key) # 0
      THEN Ok(VObject([v.o EXCEPT ![DictFind(v.o, key)] = [k |-> key, v |-> x]]))
    ELSE Panic

\* v[key][index] = x: index_mut by key, then index_mut by position on the
\* member it yields
assign_str_usize(v, key, index, x) ==
    IF index_str(v, key).kind = "panic" THEN Panic
    ELSE IF assign_usize(index_str(v, key).v, index, x).kind = "panic" THEN Panic
    ELSE assign_str(v, key, assign_usize(index_str(v, key).v, index, x).v)

(***************************************************************************)
(* The serde adapter (serde_support/ser.rs): impl Serialize for Value      *)
(* driving JsonSerializer, whose output grows by appending.                *)
(***************************************************************************)
\* String::ends_with(c)
EndsWith(output, c) == output # <<>> /\ output[Len(output)] = c

\* ser.rs:132-137
serialize_str(output, v) == output \o <<ch.quote>> \o v \o <<ch.quote>>

RECURSIVE serialize(_, _)
RECURSIVE SerializeElements(_, _, _)
RECURSIVE SerializeEntries(_, _, _)

\* ser.rs:22-24 with serialize_element (ser.rs:270-278), from the i-th element on
SerializeElements(output, arr, i) ==
    IF i > Len(arr) THEN output
    ELSE SerializeElements(
           serialize(IF EndsWith(output, ch.lbracket) THEN output
                     ELSE output \o <<ch.comma>>, arr[i]),
           arr, i + 1)

\* ser.rs:29-31 with serialize_key and serialize_value (ser.rs:378-397), from
\* the i-th member on
SerializeEntries(output, obj, i) ==
    IF i > Len(obj) THEN output
    ELSE SerializeEntries(
           serialize(serialize_str(IF EndsWith(output, ch.lbrace) THEN output
                                   ELSE output \o <<ch.comma>>, obj[i].k)
                       \o <<ch.colon>>, obj[i].v),
           obj, i + 1)

\* ser.rs:8-36: the output after value is serialized onto it
serialize(output, value) ==
    IF value.t = "Null" THEN output \o LitNull
    ELSE IF value.t = "Bool" THEN output \o (IF value.b THEN LitTrue ELSE LitFalse)
    ELSE IF value.t = "Number" THEN output \o NumberDisplay(value.n)
    ELSE IF value.t = "String" THEN serialize_str(output, value.s)
    ELSE IF value.t = "Array"
      THEN SerializeElements(output \o <<ch.lbracket>>, value.a, 1) \o <<ch.rbracket>>
    ELSE SerializeEntries(output \o <<ch.lbrace>>, value.o, 1) \o <<ch.rbrace>>

\* ser.rs:38-45
serde_to_string(value) == Ok(serialize(<<>>, value))

\* the in-place parse that empties the Value before it parses
parse_inplace_clearing(self, parsed) ==
    IF parsed.kind = "ok" THEN [self |-> parsed.v, ret |-> Ok(<<>>)]
    ELSE [self |-> VNull, ret |-> parsed]

\* Value::parse_inplace (lib.rs:145-148), parsed being what Value::parse(json)
\* returned: `?` hands an error back before the assignment to *self; Ok(())
\* is Ok of the empty tuple
parse_inplace(self, parsed) ==
    IF parsed.kind = "ok" THEN [self |-> parsed.v, ret |-> Ok(<<>>)]
    ELSE [self |-> self, ret |-> parsed]

(***************************************************************************)
(* The parser as a machine.  A parse state s holds                         *)
(*   bytes             Context::bytes, the bytes not yet consumed          *)
(*   pc                the subroutine about to run                         *)
(*   frames            the parse_array / parse_object calls in progress,   *)
(*                     innermost last, each with its locals                *)
(*   stack, i_context, quotation_marked                                    *)
(*                     the locals of the parse_string_raw call in progress *)
(*   ret               what the subroutine that ran last returned          *)
(*   result            what parse_slice returned, once pc = "done"         *)
(*   raised            history: the kind of the first error a subroutine   *)
(*                     raised in this parse                                *)
(*   members           history: the members, in input order, of the object *)
(*                     parse_object returned last                          *)
(* A frame's log is history too: the members inserted so far, in order.    *)
(***************************************************************************)
Start(json) ==
    [ bytes |-> json, pc |-> "parse_slice", frames |-> <<>>,
      stack |-> <<>>, i_context |-> 0, quotation_marked |-> FALSE,
      ret |-> NoRet, result |-> NoRet, raised |-> "none", members |-> <<>> ]

Frame(kind) ==
    [ kind |-> kind, arr |-> <<>>, object |-> DictNew, key |-> <<>>,
      await |-> IF kind = "object" THEN "key" ELSE "value", log |-> <<>> ]

Top(s) == s.frames[Len(s.frames)]
Pop(s) == SubSeq(s.frames, 1, Len(s.frames) - 1)
SetTop(s, fr) == [s.frames EXCEPT ![Len(s.frames)] = fr]

\* parse_string_raw is decoding an object's key (called from value.rs:402)
InKey(s) == s.frames # <<>> /\ Top(s).kind = "object" /\ Top(s).await = "key"

\* the subroutine at hand returns ret to its caller with the cursor at bytes;
\* a panic ends the whole call
Return(s, bytes, frames, ret, raised) ==
    [ s EXCEPT !.bytes = bytes, !.frames = frames, !.ret = ret,
               !.stack = <<>>, !.i_context = 0, !.quotation_marked = FALSE,
               !.pc = IF ret.kind = "panic" THEN "done" ELSE "return",
               !.result = IF ret.kind = "panic" THEN Panic ELSE s.result,
               !.raised = raised ]

\* a subroutine raises e: the first one raised is remembered
Raise(s, e) == IF s.raised = "none" THEN e ELSE s.raised

\* a leaf subroutine returns ret, raising its error if it is one
Leaf(s, bytes, ret) ==
    Return(s, bytes, s.frames, ret,
           IF ret.kind = "err" /\ ~InKey(s) THEN Raise(s, ret.e) ELSE s.raised)

\* value.rs:98-100
DoParseSlice(s) ==
    [s EXCEPT !.bytes = parse_whitespace(s.bytes), !.pc = "parse_value"]

\* value.rs:126-138
DoParseValue(s) ==
    IF s.bytes = <<>> THEN Leaf(s, s.bytes, Err("ExpectValue"))
    ELSE LET byte == Head(s.bytes)
         IN  [s EXCEPT !.ret = NoRet,
                       !.pc = IF byte \in {ch.n, ch.t, ch.f} THEN "parse_literal"
                              ELSE IF byte = ch.quote THEN "parse_string_raw"
                              ELSE IF byte = ch.lbracket THEN "parse_array"
                              ELSE IF byte = ch.lbrace THEN "parse_object"
                              ELSE "parse_number"]

\* value.rs:149-157
DoParseLiteral(s) ==
    LET r == parse_literal(s.bytes) IN Leaf(s, r.bytes, r.ret)

\* value.rs:173-236
DoParseNumber(s) ==
    LET r == parse_number(s.bytes) IN Leaf(s, r.bytes, r.ret)

\* value.rs:266-273 (and value.rs:357-359, whose assertion the dispatch of
\* parse_value makes true)
DoParseStringRaw(s) ==
    IF Len(s.bytes) < 2 \/ Head(s.bytes) # ch.quote
      THEN Leaf(s, s.bytes, Err("MissQuotationMark"))
      ELSE [s EXCEPT !.stack = <<>>, !.quotation_marked = FALSE, !.i_context = 1,
                     !.ret = NoRet, !.pc = "string_loop"]

\* the byte a two-character escape stands for in JSON, or -1
SimpleEscapeStandard(b) ==
    IF b = ch.quote THEN 34
    ELSE IF b = ch.backslash THEN 92
    ELSE IF b = ch.slash THEN 47
    ELSE IF b = ch.b THEN 8
    ELSE IF b = ch.f THEN 12
    ELSE IF b = ch.n THEN 10
    ELSE IF b = ch.r THEN 13
    ELSE IF b = ch.t THEN 9
    ELSE 0 - 1

\* the byte a two-character escape pushes (value.rs:285-292), or -1
SimpleEscape(b) ==
    IF b = ch.quote THEN 34
    ELSE IF b = ch.backslash THEN 92
    ELSE IF b = ch.slash THEN 47
    ELSE IF b = ch.b THEN 98
    ELSE IF b = ch.f THEN 102
    ELSE IF b = ch.n THEN 10
    ELSE IF b = ch.r THEN 13
    ELSE IF b = ch.t THEN 9
    ELSE 0 - 1

IsHighSurrogate(c) == c >= 55296 /\ c <= 56319
IsLowSurrogate(c) == c >= 56320 /\ c <= 57343

\* value.rs:293-334: the arm of \u at i_context
DoUnicodeEscape(s) ==
    LET i == s.i_context
        len == Len(s.bytes)
        high_surrogate == hex4_to_u32(Slice(s.bytes, i + 2, i + 6))
        low_surrogate == hex4_to_u32(Slice(s.bytes, i + 8, i + 12))
        pair == encode_utf8(s.stack, 65536 + (high_surrogate - 55296) * 1024
                                           + (low_surrogate - 56320))
        single == encode_utf8(s.stack, high_surrogate)
    IN  IF i + 6 >= len THEN Leaf(s, s.bytes, Err("InvalidUnicodeHex"))
        ELSE IF high_surrogate < 0 THEN Leaf(s, s.bytes, Err("InvalidUnicodeHex"))
        ELSE IF IsHighSurrogate(high_surrogate)
          THEN IF i + 12 < len /\ At(s.bytes, i + 6) = ch.backslash
                               /\ At(s.bytes, i + 7) = ch.u
                 THEN IF low_surrogate < 0
                        THEN Leaf(s, s.bytes, Err("InvalidUnicodeHex"))
                      ELSE IF ~IsLowSurrogate(low_surrogate)
                        THEN Leaf(s, s.bytes, Err("InvalidUnicodeSurrogate"))
                      ELSE IF ~pair.ok
                        THEN Leaf(s, s.bytes, Err("InvalidUnicodeSurrogate"))
                      ELSE [s EXCEPT !.stack = pair.stack, !.i_context = i + 10 + 2]
                 ELSE Leaf(s, s.bytes, Err("InvalidUnicodeSurrogate"))
        ELSE IF ~single.ok THEN Leaf(s, s.bytes, Err("InvalidUnicodeSurrogate"))
        ELSE [s EXCEPT !.stack = single.stack, !.i_context = i + 4 + 2]

\* value.rs:274-348: the loop test and one run of the loop body
DoStringLoop(s) ==
    LET i == s.i_context
        len == Len(s.bytes)
        b == At(s.bytes, i)
        esc == At(s.bytes, i + 1)
    IN  IF ~(i < len) THEN [s EXCEPT !.pc = "string_end"]
        ELSE IF b = ch.quote
          THEN [s EXCEPT !.quotation_marked = TRUE, !.pc = "string_end"]
        ELSE IF b = ch.backslash
          THEN IF i + 1 < len
                 THEN IF esc = ch.u THEN DoUnicodeEscape(s)
                      ELSE IF SimpleEscape(esc) >= 0
                        THEN [s EXCEPT !.stack = Append(s.stack, SimpleEscape(esc)),
                                       !.i_context = i + 2]
                      ELSE Leaf(s, s.bytes, Err("InvalidStringEscape"))
                 ELSE s
        ELSE IF b < 32 THEN Leaf(s, s.bytes, Err("InvalidStringChar"))
        ELSE [s EXCEPT !.stack = Append(s.stack, b), !.i_context = i + 1]

\* value.rs:349-355
DoStringEnd(s) ==
    LET popped == pop_bytes(s.stack, Len(s.stack) - 0)
    IN  IF s.quotation_marked
          THEN IF popped.ok /\ IsUtf8(popped.removed)
                 THEN Leaf(s, SliceFrom(s.bytes, s.i_context + 1), Ok(VString(popped.removed)))
                 ELSE Leaf(s, SliceFrom(s.bytes, s.i_context + 1), Panic)
          ELSE Leaf(s, s.bytes, Err("MissQuotationMark"))

\* value.rs:362-371 and value.rs:391-399: the container's opening; kind is
\* "array" with close = b']' or "object" with close = b'}'
DoOpen(s, kind, open, close, empty) ==
    LET st == step(s.bytes)
        rest == parse_whitespace(st.bytes)
    IN  IF ~st.some \/ st.b # open THEN Leaf(s, s.bytes, Panic)
        ELSE IF rest = <<>> THEN Leaf(s, rest, Panic)
        ELSE IF Head(rest) = close
          THEN [Leaf(s, Tail(rest), Ok(empty)) EXCEPT
                  !.members = IF kind = "object" THEN <<>> ELSE s.members]
        ELSE [s EXCEPT !.bytes = rest, !.frames = Append(s.frames, Frame(kind)),
                       !.ret = NoRet,
                       !.pc = IF kind = "array" THEN "parse_value" ELSE "parse_string_raw"]

\* value.rs:362-371
DoParseArray(s) == DoOpen(s, "array", ch.lbracket, ch.rbracket, VArray(<<>>))

\* value.rs:391-399
DoParseObject(s) == DoOpen(s, "object", ch.lbrace, ch.rbrace, VObject(DictNew))

\* value.rs:373-388: parse_value has returned to parse_array's loop
DoArrayReturn(s) ==
    LET arr == Append(Top(s).arr, s.ret.v)
        rest == parse_whitespace(s.bytes)
        st == step(rest)
    IN  IF s.ret.kind = "err" THEN Return(s, s.bytes, Pop(s), s.ret, s.raised)
        ELSE IF st.some /\ st.b = ch.comma
          THEN [s EXCEPT !.bytes = parse_whitespace(st.bytes),
                         !.frames = SetTop(s, [Top(s) EXCEPT !.arr = arr]),
                         !.ret = NoRet, !.pc = "parse_value"]
        ELSE IF st.some /\ st.b = ch.rbracket
          THEN Return(s, st.bytes, Pop(s), Ok(VArray(arr)), s.raised)
        ELSE Return(s, st.bytes, Pop(s), Err("MissCommaOrSquareBracket"),
                    Raise(s, "MissCommaOrSquareBracket"))

\* value.rs:402-411 and 427-429: parse_string_raw has returned the key
DoObjectKeyReturn(s) ==
    LET rest == parse_whitespace(s.bytes)
        st == step(rest)
    IN  IF s.ret.kind = "err"
          THEN Return(s, s.bytes, Pop(s), Err("MissKey"), Raise(s, "MissKey"))
        ELSE IF st.some /\ st.b = ch.colon
          THEN [s EXCEPT !.bytes = parse_whitespace(st.bytes),
                         !.frames = SetTop(s, [Top(s) EXCEPT !.key = s.ret.v.s,
                                                             !.await = "value"]),
                         !.ret = NoRet, !.pc = "parse_value"]
        ELSE Return(s, st.bytes, Pop(s), Err("MissColon"), Raise(s, "MissColon"))

\* the member's value returned to parse_object with its error handed on as
\* it is
DoObjectValueReturnVerbatim(s) ==
    LET key == Top(s).key
        object == DictInsert(Top(s).object, key, s.ret.v)
        log == Append(Top(s).log, [k |-> key, v |-> s.ret.v])
        rest == parse_whitespace(s.bytes)
        st == step(rest)
    IN  IF s.ret.kind = "err"
          THEN Return(s, s.bytes, Pop(s), s.ret, s.raised)
        ELSE IF st.some /\ st.b = ch.comma
          THEN [s EXCEPT !.bytes = parse_whitespace(st.bytes),
                         !.frames = SetTop(s, [Top(s) EXCEPT !.object = object,
                                                             !.await = "key",
                                                             !.log = log]),
                         !.ret = NoRet, !.pc = "parse_string_raw"]
        ELSE IF st.some /\ st.b = ch.rbrace
          THEN [Return(s, st.bytes, Pop(s), Ok(VObject(object)), s.raised) EXCEPT
                  !.members = log]
        ELSE Return(s, st.bytes, Pop(s), Err("MissCommaOrCurlyBracket"),
                    Raise(s, "MissCommaOrCurlyBracket"))

\* value.rs:412-426: parse_value has returned the member's value
DoObjectValueReturn(s) ==
    LET key == Top(s).key
        object == DictInsert(Top(s).object, key, s.ret.v)
        log == Append(Top(s).log, [k |-> key, v |-> s.ret.v])
        rest == parse_whitespace(s.bytes)
        st == step(rest)
    IN  IF s.ret.kind = "err"
          THEN Return(s, s.bytes, Pop(s), Err("InvalidValue"), s.raised)
        ELSE IF st.some /\ st.b = ch.comma
          THEN [s EXCEPT !.bytes = parse_whitespace(st.bytes),
                         !.frames = SetTop(s, [Top(s) EXCEPT !.object = object,
                                                             !.await = "key",
                                                             !.log = log]),
                         !.ret = NoRet, !.pc = "parse_string_raw"]
        ELSE IF st.some /\ st.b = ch.rbrace
          THEN [Return(s, st.bytes, Pop(s), Ok(VObject(object)), s.raised) EXCEPT
                  !.members = log]
        ELSE Return(s, st.bytes, Pop(s), Err("MissCommaOrCurlyBracket"),
                    Raise(s, "MissCommaOrCurlyBracket"))

\* the return to parse_slice without the test that the input is used up
DoRootReturnLax(s) ==
    IF s.ret.kind = "err" THEN [s EXCEPT !.result = s.ret, !.pc = "done"]
    ELSE [s EXCEPT !.bytes = parse_whitespace(s.bytes), !.pc = "done",
                   !.result = s.ret]

\* value.rs:101-111: parse_value has returned to parse_slice
DoRootReturn(s) ==
    LET rest == parse_whitespace(s.bytes)
    IN  IF s.ret.kind = "err" THEN [s EXCEPT !.result = s.ret, !.pc = "done"]
        ELSE [s EXCEPT !.bytes = rest, !.pc = "done",
                       !.result = IF rest = <<>> THEN s.ret
                                  ELSE Err("RootNotSingular"),
                       !.raised = IF rest = <<>> THEN s.raised
                                  ELSE Raise(s, "RootNotSingular")]

\* the one step the parse takes from s
Step(s) ==
    IF s.pc = "parse_slice" THEN DoParseSlice(s)
    ELSE IF s.pc = "parse_value" THEN DoParseValue(s)
    ELSE IF s.pc = "parse_literal" THEN DoParseLiteral(s)
    ELSE IF s.pc = "parse_number" THEN DoParseNumber(s)
    ELSE IF s.pc = "parse_string_raw" THEN DoParseStringRaw(s)
    ELSE IF s.pc = "string_loop" THEN DoStringLoop(s)
    ELSE IF s.pc = "string_end" THEN DoStringEnd(s)
    ELSE IF s.pc = "parse_array" THEN DoParseArray(s)
    ELSE IF s.pc = "parse_object" THEN DoParseObject(s)
    ELSE IF s.pc = "return"
      THEN IF s.frames = <<>> THEN DoRootReturn(s)
           ELSE IF Top(s).kind = "array" THEN DoArrayReturn(s)
           ELSE IF Top(s).await = "key" THEN DoObjectKeyReturn(s)
           ELSE DoObjectValueReturn(s)
    ELSE s

RECURSIVE Run(_)
\* the parse run to its end: what it returns, or "hang" when a step leaves
\* the state as it is, which the loop then repeats for ever
Run(s) ==
    IF s.pc = "done" THEN s.result
    ELSE LET next == Step(s)
         IN  IF next = s THEN [kind |-> "hang"] ELSE Run(next)

\* Value::parse_slice (value.rs:98-112) as a function of its input
parse_slice(json) == Run(Start(json))

(***************************************************************************)
(* Texts.  Txt(<<"n", "u", "l", "l">>) is the text null.                   *)
(***************************************************************************)
AsciiPrintable ==
    << " ", "!", "\"", "#", "$", "%", "&", "'", "(", ")", "*", "+", ",", "-", ".", "/",
       "0", "1", "2", "3", "4", "5", "6", "7", "8", "9", ":", ";", "<", "=", ">", "?",
       "@", "A", "B", "C", "D", "E", "F", "G", "H", "I", "J", "K", "L", "M", "N", "O",
       "P", "Q", "R", "S", "T", "U", "V", "W", "X", "Y", "Z", "[", "\\", "]", "^", "_",
       "grave", "a", "b", "c", "d", "e", "f", "g", "h", "i", "j", "k", "l", "m", "n", "o",
       "p", "q", "r", "s", "t", "u", "v", "w", "x", "y", "z", "{", "|", "}", "~" >>

Asc(c) == 31 + CHOOSE i \in 1..Len(AsciiPrintable) : AsciiPrintable[i] = c

Txt(cs) == [i \in 1..Len(cs) |-> Asc(cs[i])]

\* all sequences of at most n elements of S
SeqsUpTo(S, n) == UNION {[1..k -> S] : k \in 0..n}

\* all concatenations of at most n of the texts toks
TokSeqs(toks, n) == {Concat(ts) : ts \in SeqsUpTo(toks, n)}

(***************************************************************************)
(* The inputs the model parses: every byte sequence of a bounded length    *)
(* over the bytes of the number grammar, every string literal and every    *)
(* document made of a bounded count of tokens, every object text of a      *)
(* bounded count of members, and the texts of the repository's tests.      *)
(***************************************************************************)
MaxNumLen == 4
MaxStrToks == 3
MaxDocToks == 4
MaxMembers == 2

NumAlphabet == {Asc("-"), Asc("0"), Asc("1"), Asc("."), Asc("e"), Asc("+")}
NumTexts == SeqsUpTo(NumAlphabet, MaxNumLen)

StrTokens ==
    { Txt(<<"\"">>), Txt(<<"\\">>), Txt(<<"b">>), Txt(<<"n">>), Txt(<<" ">>),
      Txt(<<"\\", "u", "0", "0", "4", "1">>), Txt(<<"\\", "u", "0", "0", "0", "8">>),
      Txt(<<"\\", "u", "D", "8", "3", "4">>), Txt(<<"\\", "u", "d", "d", "1", "e">>),
      Txt(<<"\\", "u", "0", "G", "0", "0">>),
      <<1>>, <<195>>, <<169>> }
StrTexts == {<<ch.quote>> \o t : t \in TokSeqs(StrTokens, MaxStrToks)}

DocTokens ==
    { Txt(<<"[">>), Txt(<<"]">>), Txt(<<"{">>), Txt(<<"}">>), Txt(<<",">>),
      Txt(<<":">>), Txt(<<"1">>), Txt(<<"\"", "a", "\"">>), Txt(<<" ">>) }
DocTexts == TokSeqs(DocTokens, MaxDocToks)

MemberKeys ==
    { Txt(<<"\"", "a", "\"">>), Txt(<<"\"", "b", "\"">>),
      Txt(<<"\"", "a", "\\", "\"", "\"">>) }
MemberValues ==
    { Txt(<<"1">>), Txt(<<"2", ".", "0">>), Txt(<<"[", "t", "r", "u", "e", "]">>) }
MemberTexts == {k \o <<ch.colon>> \o v : k \in MemberKeys, v \in MemberValues}
ObjTexts ==
    { <<ch.lbrace>> \o JoinComma(ms) \o <<ch.rbrace>> : ms \in SeqsUpTo(MemberTexts, MaxMembers) }

\* texts of the tests of value.rs:550-1038
TestTexts ==
    { Txt(<<"n", "u", "l", "l">>), Txt(<<"f", "a", "l", "s", "e">>),
      Txt(<<" ", "t", "r", "u", "e", " ">>) \o <<ch.tab, ch.cr, ch.lf>>,
      Txt(<<"n", "u", "l">>), Txt(<<"?">>), Txt(<<"I", "N", "F">>),
      Txt(<<"n", "u", "l", "l", " ", "x">>), Txt(<<"0", "1", "2", "3">>),
      Txt(<<"0", "x", "0">>), Txt(<<"-", "0">>), Txt(<<"-", "0", ".", "0">>),
      Txt(<<"1", ".", "5">>), Txt(<<"1", "E", "1", "0">>), Txt(<<"1", "E", "-", "1", "0">>),
      Txt(<<"1", "e", "3", "0", "9">>), Txt(<<"-", "1", "e", "3", "0", "9">>),
      Txt(<<"1", "e", "-", "1", "0", "0", "0", "0">>),
      Txt(<<"1", ".", "2", "3", "4", "E", "+", "1", "0">>),
      Txt(<<"0", ".", "0", "1", "1", "7", "1", "8", "7", "5">>),
      Txt(<<"9", "2", "2", "3", "3", "7", "2", "0", "3", "6", "8", "5", "4", "7", "7",
            "5", "8", "0", "7">>),
      Txt(<<"9", "2", "2", "3", "3", "7", "2", "0", "3", "6", "8", "5", "4", "7", "7",
            "5", "8", "0", "8">>),
      Txt(<<"-", "9", "2", "2", "3", "3", "7", "2", "0", "3", "6", "8", "5", "4", "7",
            "7", "5", "8", "0", "8">>),
      Txt(<<"-", "9", "2", "2", "3", "3", "7", "2", "0", "3", "6", "8", "5", "4", "7",
            "7", "5", "8", "0", "9">>),
      Txt(<<"\"", "H", "e", "l", "l", "o", "\\", "n", "W", "o", "r", "l", "d", "\"">>),
      Txt(<<"\"", "\\", "\"", " ", "\\", "\\", " ", "/", " ", "\\", "b", " ", "\\", "f",
            " ", "\\", "n", " ", "\\", "r", " ", "\\", "t", "\"">>),
      Txt(<<"\"", "\\", "/", "\"">>),
      Txt(<<"\"", "\\", "u", "2", "0", "A", "C", "\"">>),
      Txt(<<"\"", "\\", "u", "D", "8", "3", "4", "\\", "u", "D", "D", "1", "E", "\"">>),
      Txt(<<"\"", "\\", "u", "D", "8", "0", "0", "\\", "u", "E", "0", "0", "0", "\"">>),
      Txt(<<"\"", "\\", "u", "D", "C", "0", "0", "\"">>),
      Txt(<<"\"", "H", "e", "l", "l", "o", "\\", "u", "0", "0", "0", "0", "W", "\"">>),
      Txt(<<"\"", "\\", "u", "0", "0", "0", "C", "\"">>),
      Txt(<<"\"", "a", "b", "c">>), Txt(<<"\"", "\\", "v", "\"">>),
      Txt(<<"\"", "\\", "u", "0", "0", "4", "1">>),
      Txt(<<"[", " ", "n", "u", "l", "l", " ", ",", " ", "f", "a", "l", "s", "e", " ", ",",
            " ", "1", "2", "3", " ", ",", " ", "\"", "a", "b", "c", "\"", " ", "]">>),
      Txt(<<"[", " ", "[", " ", "]", " ", ",", " ", "[", " ", "0", " ", ",", " ", "1", " ",
            "]", " ", "]">>),
      Txt(<<"[", "1", ",", "]">>), Txt(<<"[", "\"", "a", "\"", ",", " ", "n", "u", "l", "]">>),
      Txt(<<"[", "1", " ", "2">>), Txt(<<"[", "[", "]">>), Txt(<<"[", "1", ".", "0", "]">>),
      Txt(<<"{", "\"", "b", "\"", ":", "1", ",", "\"", "a", "\"", ":", "2", "}">>),
      Txt(<<"{", "\"", "a", "\"", ":", "1", ",", "\"", "b", "\"", ":", "2", ",",
            "\"", "a", "\"", ":", "3", "}">>),
      Txt(<<"{", " ", "\"", "n", "\"", " ", ":", " ", "n", "u", "l", "l", " ", ",", " ",
            "\"", "a", "\"", " ", ":", " ", "[", " ", "1", ",", " ", "2", " ", "]", ",",
            "\"", "o", "\"", " ", ":", " ", "{", " ", "\"", "1", "\"", " ", ":", " ", "1",
            " ", "}", " ", "}">>),
      Txt(<<"{", "\"", "a", "\"", ":", "1">>), Txt(<<"{", "\"", "a", "\"", ":", "1", ",">>),
      Txt(<<"{", "\"", "a", "\"", ",", "\"", "b", "\"", "}">>),
      Txt(<<"{", "\"", "a", "\"", ":", "\"", "b">>),
      Txt(<<"{", "\"", "a", "\"", ":", "[", "1">>),
      Txt(<<"{", "\"", "a", "\"", ":", "1", "e", "3", "0", "9", "}">>),
      Txt(<<"{", "\"", "a", "\"", ":", "{", "}">>) }

\* string literals of one surrogate pair: the ends and the middle of both
\* ranges, in upper and lower case hex
HighEscapes ==
    { Txt(<<"\\", "u", "D", "8", "0", "0">>), Txt(<<"\\", "u", "d", "8", "3", "4">>),
      Txt(<<"\\", "u", "D", "B", "F", "F">>) }
LowEscapes ==
    { Txt(<<"\\", "u", "D", "C", "0", "0">>), Txt(<<"\\", "u", "D", "d", "1", "E">>),
      Txt(<<"\\", "u", "d", "f", "f", "f">>) }
SurrogateTexts ==
    { <<ch.quote>> \o hi \o lo \o <<ch.quote>> : hi \in HighEscapes, lo \in LowEscapes }

\* literal candidates: every non-empty prefix of null, true and false, whole
\* or with one byte replaced, followed by a bounded tail, at the root and as
\* the first element of an array
MaxLitTail == 1
LitTails == SeqsUpTo({ch.space, ch.e, ch.rbracket, ch.comma}, MaxLitTail)
LitPrefixes ==
    UNION { {SubSeq(lit, 1, k) : k \in 1..Len(lit)} : lit \in {LitNull, LitTrue, LitFalse} }
LitSpoiled ==
    { [w EXCEPT ![i] = ch.a] : w \in {LitNull, LitTrue},  i \in 2..4 }
      \cup { [LitFalse EXCEPT ![i] = ch.u] : i \in 2..5 }
LitTexts ==
    { open \o w \o tail : open \in {<<>>, <<ch.lbracket>>},
                          w \in LitPrefixes \cup LitSpoiled, tail \in LitTails }

\* objects of one member whose value fails to parse, each with another kind
\* of error: a leading zero, a bad literal, a bad escape, an array cut short
ValueFailTexts ==
    { Txt(<<"{", "\"", "a", "\"", ":">>) \o v \o Txt(<<"}">>) :
        v \in { Txt(<<"0", "1">>), Txt(<<"n", "u", "l">>),
                Txt(<<"\"", "\\", "v", "\"">>), Txt(<<"[", "1", " ", "2", "]">>),
                Txt(<<"{", "\"", "b", "\"", "}">>) } }

Inputs ==
    NumTexts \cup StrTexts \cup DocTexts \cup ObjTexts \cup TestTexts
      \cup SurrogateTexts \cup LitTexts \cup ValueFailTexts

(***************************************************************************)
(* The state: the parse in progress (the fields of a parse state, one      *)
(* variable each) inside the round trip of test_roundtrip                  *)
(* (value.rs:975-984): pass 1 parses json to v1 (first), text is           *)
(* v1.to_string(), pass 2 parses text, and equal is the outcome of         *)
(* assert_eq!(v1, v2).                                                     *)
(***************************************************************************)
VARIABLES json, bytes, pc, frames, stack, i_context, quotation_marked, ret, result,
          raised, members, pass, first, text, equal,
          subject, operand, op, op_ret, prior, place, threads

parser ==
    <<bytes, pc, frames, stack, i_context, quotation_marked, ret, result, raised, members>>
harness == <<pass, first, text, equal>>
\* a Value in a caller's hands (the `v` of tests::access_array and
\* tests::access_object, value.rs:1040-1133): subject is the Value, operand the
\* other Value of a comparison or the Value assigned; op, place and op_ret are
\* the operation applied last, its index or key, and what it returned; prior
\* is history, the subject before that operation
api == <<subject, operand, op, op_ret, prior, place>>
vars == <<json, parser, harness, api, threads>>

\* the parse state the variables hold
Cur ==
    [ bytes |-> bytes, pc |-> pc, frames |-> frames, stack |-> stack,
      i_context |-> i_context, quotation_marked |-> quotation_marked,
      ret |-> ret, result |-> result, raised |-> raised, members |-> members ]

\* the parse moves to the parse state s
Moves(s) ==
    /\ bytes' = s.bytes
    /\ pc' = s.pc
    /\ frames' = s.frames
    /\ stack' = s.stack
    /\ i_context' = s.i_context
    /\ quotation_marked' = s.quotation_marked
    /\ ret' = s.ret
    /\ result' = s.result
    /\ raised' = s.raised
    /\ members' = s.members

Becomes(s) == Moves(s) /\ UNCHANGED <<json, harness, api, threads>>

\* no index and no key
NoPlace == [index |-> 0, key |-> <<>>]

\* the text the parse in progress was given
Input == IF pass = 1 THEN json ELSE text

Init ==
    /\ json \in Inputs
    /\ bytes = json
    /\ pc = "parse_slice"
    /\ frames = <<>>
    /\ stack = <<>>
    /\ i_context = 0
    /\ quotation_marked = FALSE
    /\ ret = NoRet
    /\ result = NoRet
    /\ raised = "none"
    /\ members = <<>>
    /\ pass = 1
    /\ first = NoRet
    /\ text = <<>>
    /\ equal = "none"
    /\ subject = VNull
    /\ operand = VNull
    /\ op = "none"
    /\ op_ret = NoRet
    /\ prior = VNull
    /\ place = NoPlace
    /\ threads = <<>>

ParseSlice == pc = "parse_slice" /\ Becomes(DoParseSlice(Cur))

ParseValue == pc = "parse_value" /\ Becomes(DoParseValue(Cur))

ParseLiteral == pc = "parse_literal" /\ Becomes(DoParseLiteral(Cur))

ParseNumber == pc = "parse_number" /\ Becomes(DoParseNumber(Cur))

ParseStringRaw == pc = "parse_string_raw" /\ Becomes(DoParseStringRaw(Cur))

StringLoop == pc = "string_loop" /\ Becomes(DoStringLoop(Cur))

StringEnd == pc = "string_end" /\ Becomes(DoStringEnd(Cur))

ParseArray == pc = "parse_array" /\ Becomes(DoParseArray(Cur))

ParseObject == pc = "parse_object" /\ Becomes(DoParseObject(Cur))

ArrayReturn ==
    /\ pc = "return" /\ frames # <<>> /\ Top(Cur).kind = "array"
    /\ Becomes(DoArrayReturn(Cur))

ObjectKeyReturn ==
    /\ pc = "return" /\ frames # <<>> /\ Top(Cur).kind = "object"
    /\ Top(Cur).await = "key"
    /\ Becomes(DoObjectKeyReturn(Cur))

ObjectValueReturn ==
    /\ pc = "return" /\ frames # <<>> /\ Top(Cur).kind = "object"
    /\ Top(Cur).await = "value"
    /\ Becomes(DoObjectValueReturn(Cur))

RootReturn == pc = "return" /\ frames = <<>> /\ Becomes(DoRootReturn(Cur))

\* value.rs:977: v1.to_string() (value.rs:62-66)
Stringify ==
    /\ pc = "done" /\ pass = 1 /\ result.kind = "ok" /\ text = <<>>
    /\ text' = stringify_value(result.v)
    /\ UNCHANGED <<json, parser, pass, first, equal, api, threads>>

\* value.rs:977: Value::parse of the text, v1 kept
Reparse ==
    /\ pass = 1 /\ text # <<>>
    /\ pass' = 2
    /\ first' = result
    /\ Moves(Start(text))
    /\ UNCHANGED <<json, text, equal, api, threads>>

\* value.rs:978: assert_eq!(v1, v2)
Compare ==
    /\ pc = "done" /\ pass = 2 /\ result.kind = "ok" /\ equal = "none"
    /\ equal' = ValueEq(first.v, result.v)
    /\ UNCHANGED <<json, parser, pass, first, text, api, threads>>

\* the Values parse_inplace is called on
InplaceTargets == { VNull, VNumber(NumInt(FALSE, <<1>>)), VArray(<<VNull>>) }

\* existing.parse_inplace(json) (lib.rs:145-148): the parse it called has
\* returned, and parse_inplace returns to its caller
ParseInplace ==
    /\ pc = "done" /\ pass = 1 /\ text = <<>> /\ result.kind \in {"ok", "err"}
    /\ \E existing \in InplaceTargets :
          /\ prior' = existing
          /\ subject' = parse_inplace(existing, result).self
          /\ op_ret' = parse_inplace(existing, result).ret
    /\ op' = "parse_inplace"
    /\ pc' = "returned"
    /\ UNCHANGED <<json, bytes, frames, stack, i_context, quotation_marked, ret,
                   result, raised, members, harness, operand, place, threads>>

Next ==
    \/ ParseSlice
    \/ ParseValue
    \/ ParseLiteral
    \/ ParseNumber
    \/ ParseStringRaw
    \/ StringLoop
    \/ StringEnd
    \/ ParseArray
    \/ ParseObject
    \/ ArrayReturn
    \/ ObjectKeyReturn
    \/ ObjectValueReturn
    \/ RootReturn
    \/ Stringify
    \/ Reparse
    \/ Compare
    \/ ParseInplace

Spec == Init /\ [][Next]_vars

(***************************************************************************)
(* The Value API: a caller holds a Value and compares it, reads and        *)
(* assigns through its index operators, and writes it as text with         *)
(* to_string and with the serde adapter.  An abort ends the caller.        *)
(***************************************************************************)
MaxApiLen == 2
MaxIndex == 1

MaxTextToks == 2
\* the characters of the strings written as text: quote, backslash, the
\* control bytes 0x00, 0x08, 0x0C and LF, the letters b, f and u, '/', and
\* characters of two and of four UTF-8 bytes
TextTokens ==
    { <<ch.quote>>, <<ch.backslash>>, <<0>>, <<8>>, <<12>>, <<ch.lf>>,
      <<ch.b>>, <<ch.f>>, <<ch.u>>, <<ch.slash>>, <<195, 169>>,
      <<240, 157, 132, 158>> }
ApiStrings ==
    { <<>>, <<ch.a>>, <<ch.b>>, <<ch.quote>>, <<ch.a, ch.backslash>>,
      <<ch.lf>>, <<1>>, <<195, 169>> } \cup TokSeqs(TextTokens, MaxTextToks)
ApiScalars ==
    { VNull, VBool(TRUE), VBool(FALSE),
      VNumber(NumInt(FALSE, <<0>>)), VNumber(NumFloat(FALSE, <<>>, 0)),
      VNumber(NumInt(FALSE, <<1>>)), VNumber(NumFloat(FALSE, <<1>>, 1)),
      VNumber(NumInt(TRUE, <<1>>)) }
      \cup {VString(str) : str \in ApiStrings}
ApiKeys == { <<ch.a>>, <<ch.b>>, <<ch.a, ch.quote>> }
ApiMemberValues ==
    { VNumber(NumInt(FALSE, <<1>>)), VNumber(NumFloat(FALSE, <<1>>, 1)),
      VArray(<<VNull, VBool(TRUE)>>) }
\* the Dict of the members ms: inserted one by one into an empty Dict
RECURSIVE DictOf(_)
DictOf(ms) ==
    IF ms = <<>> THEN DictNew
    ELSE DictInsert(DictOf(SubSeq(ms, 1, Len(ms) - 1)), ms[Len(ms)].k, ms[Len(ms)].v)
ApiObjects ==
    { VObject(DictOf(ms)) :
        ms \in SeqsUpTo([k : ApiKeys, v : ApiMemberValues], MaxApiLen) }
ApiElements ==
    { VNull, VNumber(NumInt(FALSE, <<1>>)),
      VObject(DictOf(<<[k |-> <<ch.a>>, v |-> VNull]>>)),
      VObject(DictOf(<<[k |-> <<ch.b>>, v |-> VNull]>>)) }
ApiArrays == { VArray(arr) : arr \in SeqsUpTo(ApiElements, MaxApiLen) }
ApiValues == ApiScalars \cup ApiObjects \cup ApiArrays
\* the Values compared with and assigned
ApiOperands ==
    { VNull, VBool(TRUE),
      VNumber(NumInt(FALSE, <<0>>)), VNumber(NumFloat(FALSE, <<>>, 0)),
      VNumber(NumInt(FALSE, <<1>>)), VNumber(NumFloat(FALSE, <<1>>, 1)),
      VString(<<>>), VString(<<ch.a>>),
      VArray(<<>>), VArray(<<VNull>>), VArray(<<VNull, VNumber(NumInt(FALSE, <<1>>))>>),
      VArray(<<VObject(DictOf(<<[k |-> <<ch.a>>, v |-> VNull]>>))>>),
      VArray(<<VObject(DictOf(<<[k |-> <<ch.b>>, v |-> VNull]>>))>>),
      VObject(DictNew),
      VObject(DictOf(<<[k |-> <<ch.a>>, v |-> VNumber(NumInt(FALSE, <<1>>))]>>)),
      VObject(DictOf(<<[k |-> <<ch.b>>, v |-> VNumber(NumInt(FALSE, <<1>>))]>>)),
      VObject(DictOf(<<[k |-> <<ch.a>>, v |-> VNumber(NumFloat(FALSE, <<1>>, 1))]>>)),
      VObject(DictOf(<<[k |-> <<ch.a>>, v |-> VNumber(NumInt(FALSE, <<1>>))],
                       [k |-> <<ch.b>>, v |-> VNumber(NumInt(FALSE, <<1>>))]>>)),
      VObject(DictOf(<<[k |-> <<ch.a>>, v |-> VNumber(NumInt(FALSE, <<1>>))],
                       [k |-> <<ch.a, ch.quote>>, v |-> VNumber(NumInt(FALSE, <<1>>))]>>)) }

ApiInit ==
    /\ json = <<>>
    /\ bytes = <<>>
    /\ pc = "idle"
    /\ frames = <<>>
    /\ stack = <<>>
    /\ i_context = 0
    /\ quotation_marked = FALSE
    /\ ret = NoRet
    /\ result = NoRet
    /\ raised = "none"
    /\ members = <<>>
    /\ pass = 1
    /\ first = NoRet
    /\ text = <<>>
    /\ equal = "none"
    /\ subject \in ApiValues
    /\ operand \in ApiOperands
    /\ op = "none"
    /\ op_ret = NoRet
    /\ prior = subject
    /\ place = NoPlace
    /\ threads = <<>>

\* the caller is alive; the operation applied next is o at place p, returning r
\* and leaving the Value v
Applies(o, p, r, v) ==
    /\ op_ret.kind # "panic"
    /\ op' = o
    /\ place' = p
    /\ op_ret' = r
    /\ prior' = subject
    /\ subject' = v
    /\ UNCHANGED <<json, parser, harness, operand, threads>>

\* subject == operand (value.rs:68-89)
Eq ==
    Applies("eq", NoPlace,
            IF ValueEq(subject, operand) = "panic" THEN Panic
            ELSE Ok(ValueEq(subject, operand) = "true"),
            subject)

\* &subject[index] (value.rs:40-50)
IndexUsize ==
    \E index \in 0..MaxIndex :
        Applies("index_usize", [index |-> index, key |-> <<>>],
                index_usize(subject, index), subject)

\* &subject[key] (value.rs:18-28)
IndexStr ==
    \E key \in ApiKeys :
        Applies("index_str", [index |-> 0, key |-> key],
                index_str(subject, key), subject)

\* the Value after an assignment that returned r
Assigned(r) == IF r.kind = "ok" THEN r.v ELSE subject
\* what an assignment that returned r hands back: nothing, or the abort
Unit(r) == IF r.kind = "ok" THEN NoRet ELSE Panic

\* subject[index] = operand (value.rs:52-60)
AssignUsize ==
    \E index \in 0..MaxIndex :
        Applies("assign_usize", [index |-> index, key |-> <<>>],
                Unit(assign_usize(subject, index, operand)),
                Assigned(assign_usize(subject, index, operand)))

\* subject[key] = operand (value.rs:30-38)
AssignStr ==
    \E key \in ApiKeys :
        Applies("assign_str", [index |-> 0, key |-> key],
                Unit(assign_str(subject, key, operand)),
                Assigned(assign_str(subject, key, operand)))

\* subject[key][index] = operand (value.rs:1112)
AssignStrUsize ==
    \E key \in ApiKeys, index \in 0..MaxIndex :
        Applies("assign_str_usize", [index |-> index, key |-> key],
                Unit(assign_str_usize(subject, key, index, operand)),
                Assigned(assign_str_usize(subject, key, index, operand)))

\* subject.to_string() (value.rs:62-66)
ToText == Applies("to_string", NoPlace, Ok(stringify_value(subject)), subject)

\* serde_support::to_string(&subject) (ser.rs:38-45)
SerdeToString == Applies("serde_to_string", NoPlace, serde_to_string(subject), subject)

ApiNext ==
    \/ Eq
    \/ IndexUsize
    \/ IndexStr
    \/ AssignUsize
    \/ AssignStr
    \/ AssignStrUsize
    \/ ToText
    \/ SerdeToString

ApiSpec == ApiInit /\ [][ApiNext]_vars

(***************************************************************************)
(* Two calls of Value::parse at once, each on its own thread with its own  *)
(* input.  Everything a parse works on is a local of its call: the Context *)
(* (value.rs:99) and, in parse_string_raw, the scratch buffer              *)
(* (value.rs:270).  The steps of the two calls interleave in any order.    *)
(***************************************************************************)
Threads == {1, 2}

\* the inputs of the concurrent parses: string literals with escapes, a
\* surrogate pair and a two-byte character, strings inside an array and an
\* object, an unterminated literal, and inputs that fail
ParInputs ==
    { Txt(<<"\"", "a", "\\", "n", "\"">>),
      Txt(<<"\"", "\\", "u", "D", "8", "3", "4", "\\", "u", "D", "D", "1", "E", "\"">>),
      <<34, 195, 169, 34>>,
      Txt(<<"[", "\"", "a", "\"", ",", "\"", "b", "c", "\"", "]">>),
      Txt(<<"{", "\"", "k", "\"", ":", "\"", "v", "\"", "}">>),
      Txt(<<"\"", "a", "b">>),
      Txt(<<"\"", "a", "\\", "v", "\"">>),
      Txt(<<"[", "1", ",">>) }

ParInit ==
    /\ json = <<>>
    /\ bytes = <<>>
    /\ pc = "idle"
    /\ frames = <<>>
    /\ stack = <<>>
    /\ i_context = 0
    /\ quotation_marked = FALSE
    /\ ret = NoRet
    /\ result = NoRet
    /\ raised = "none"
    /\ members = <<>>
    /\ pass = 1
    /\ first = NoRet
    /\ text = <<>>
    /\ equal = "none"
    /\ subject = VNull
    /\ operand = VNull
    /\ op = "none"
    /\ op_ret = NoRet
    /\ prior = VNull
    /\ place = NoPlace
    /\ threads \in [Threads -> {[json |-> t, s |-> Start(t)] : t \in ParInputs}]

\* one scratch buffer for all the threads: the one of thread 1
ScratchShared(ths, t) == ths[1].s.stack

\* the scratch buffer the decode of thread t works on: the local of its own
\* call of parse_string_raw (value.rs:270)
Scratch(ths, t) == ths[t].s.stack

\* thread t takes the next step of its parse
ThreadStep(t) ==
    /\ threads[t].s.pc # "done"
    /\ threads' = [threads EXCEPT
                     ![t].s = Step([threads[t].s EXCEPT !.stack = Scratch(threads, t)])]
    /\ UNCHANGED <<json, parser, harness, api>>

ParNext == \E t \in Threads : ThreadStep(t)

ParSpec == ParInit /\ [][ParNext]_vars

TypeOK ==
    /\ pc \in { "parse_slice", "parse_value", "parse_literal", "parse_number",
                "parse_string_raw", "string_loop", "string_end", "parse_array",
                "parse_object", "return", "done", "returned" }
    /\ result.kind \in {"none", "ok", "err", "panic"}
    /\ pass \in {1, 2}
    /\ equal \in {"none", "true", "false", "panic"}

(***************************************************************************)
(* Properties.                                                             *)
(***************************************************************************)
\* the parse in progress has returned
Done == pc = "done"

\* C1: round trip: whenever a parse returns Ok(v), parsing v.to_string()
\* returns Ok too and the value it yields is equal to v
C1_RoundTrip ==
    /\ (pass = 2 /\ Done) => result.kind = "ok"
    /\ equal \in {"none", "true"}

\* C2: every non-final parse state has a successor that differs from it, and
\* every iteration of the string loop, of the array loop and of the object
\* loop leaves the scan position at least one byte further
C2_EveryIterationAdvances ==
    /\ ~Done => Step(Cur) # Cur
    /\ (pc = "string_loop" /\ DoStringLoop(Cur).pc = "string_loop")
         => DoStringLoop(Cur).i_context > i_context
    /\ (pc = "return" /\ frames # <<>> /\ Step(Cur).pc \in {"parse_value", "parse_string_raw"})
         => Len(Step(Cur).bytes) < Len(bytes)

\* C3: a parse that has returned has returned Ok(Value) or Err with one of the
\* 13 kinds of ParseError: no unwrap, assertion or index aborts it
C3_Total ==
    Done => \/ result.kind = "ok"
            \/ result.kind = "err" /\ result.e \in ParseError

\* C4: the error kind a parse returns is the kind of the first error a
\* subroutine raised during it
C4_FirstFailureVerbatim ==
    (Done /\ result.kind = "err") => result.e = raised

\* the paddings of C5: none, each whitespace byte alone, and a run of all four
WsBytes == {ch.space, ch.tab, ch.lf, ch.cr}
Pads == {<<>>} \cup {<<b>> : b \in WsBytes} \cup {<<ch.space, ch.tab, ch.lf, ch.cr>>}
\* the pairs of paddings tried: one side only, or the same on both sides
PadPairs == {lr \in Pads \X Pads : lr[1] = <<>> \/ lr[2] = <<>> \/ lr[1] = lr[2]}

\* the parse of the first pass has returned
Parsed == Done /\ pass = 1

\* the parse of text_ returned what this parse returned: an equal value, or
\* the same error kind
SameOutcome(text_) ==
    LET p == parse_slice(text_)
    IN  /\ result.kind = "ok" => (p.kind = "ok" /\ ValueEq(p.v, result.v) = "true")
        /\ result.kind = "err" => (p.kind = "err" /\ p.e = result.e)

EndOfInputInString == {"MissQuotationMark", "InvalidUnicodeHex", "InvalidUnicodeSurrogate"}

C6_SingleRoot ==
    Done =>
        /\ result.kind = "ok" => (bytes = <<>> /\ ret = result)
        /\ (ret.kind = "ok" /\ bytes # <<>>) =>
             (~IsWhitespace(Head(bytes)) /\ result = Err("RootNotSingular"))

\* C6 witness: a value was parsed, a byte remains, the parse is RootNotSingular
C6_Witness ==
    /\ Done
    /\ ret.kind = "ok"
    /\ bytes # <<>>
    /\ result = Err("RootNotSingular")

\* the lexeme parse_number takes from the front of the remaining bytes
NumberResult == parse_number(bytes)
Lexeme == SubSeq(bytes, 1, Len(bytes) - Len(NumberResult.bytes))
HasFractionOrExponent(lex) ==
    \E i \in 1..Len(lex) : lex[i] \in {ch.dot, ch.e, ch.E}
LexNegative(lex) == lex # <<>> /\ lex[1] = ch.minus
LexDigits(lex) == DigitValues(IF LexNegative(lex) THEN Tail(lex) ELSE lex)
\* the value of an integer-form lexeme lies in [-2^63, 2^63 - 1]
FitsI64(lex) ==
    LET mag == StripLeadingZeros(LexDigits(lex))
    IN  \/ Len(mag) < 19
        \/ /\ Len(mag) = 19
           /\ ~DigitsLess(IF LexNegative(lex)
                            THEN <<9,2,2,3,3,7,2,0,3,6,8,5,4,7,7,5,8,0,8>>
                            ELSE <<9,2,2,3,3,7,2,0,3,6,8,5,4,7,7,5,8,0,7>>, mag)
IsIntegerForm(lex) == ~HasFractionOrExponent(lex)
\* the Number a parsed lexeme gave
Parsed_n == NumberResult.ret.v.n

\* C7: parse_number gives Number::Int exactly when the lexeme has no '.', no
\* exponent and fits i64, with the lexeme's sign and digits as its value, and
\* Number::Float for every other accepted lexeme; "-0" gives Int(0)
C7_IntFloat ==
    (pc = "parse_number" /\ NumberResult.ret.kind = "ok") =>
        /\ Parsed_n.k \in {"Int", "Float"}
        /\ Parsed_n.k = "Int" <=> (IsIntegerForm(Lexeme) /\ FitsI64(Lexeme))
        /\ Parsed_n.k = "Int" =>
             /\ Parsed_n.mag = LexDigits(Lexeme)
             /\ Parsed_n.neg = (LexNegative(Lexeme) /\ Parsed_n.mag # <<0>>)
        /\ Lexeme = <<ch.minus, ch.zero>> => Parsed_n = NumInt(FALSE, <<0>>)

\* C7 witness: the lexeme 1.0, integral in value, has been parsed as a Float
C7_Witness ==
    /\ pc = "return"
    /\ json = <<49, 46, 48>>
    /\ ret = Ok(VNumber(NumFloat(FALSE, <<1>>, 1)))

\* the texts 9223372036854775807, 9223372036854775808 and 1e309
TextI64Max == AsciiDigits(<<9,2,2,3,3,7,2,0,3,6,8,5,4,7,7,5,8,0,7>>)
TextI64MaxPlus1 == AsciiDigits(<<9,2,2,3,3,7,2,0,3,6,8,5,4,7,7,5,8,0,8>>)
Text1e309 == <<49, ch.e, 51, 48, 57>>

\* C8: an integer-form lexeme outside the i64 range is parsed as a Float, the
\* two boundary lexemes as Int, and NumberTooBig is the result exactly when the
\* lexeme is grammatical and its f64 is not finite
C8_NumberRange ==
    pc = "parse_number" =>
        /\ (NumberResult.ret.kind = "ok" /\ IsIntegerForm(Lexeme) /\ ~FitsI64(Lexeme))
             => Parsed_n.k = "Float"
        /\ Lexeme = <<ch.minus>> \o TextI64MaxPlus1
             => NumberResult.ret = Ok(VNumber(NumInt(TRUE, I64MinMag)))
        /\ Lexeme = TextI64Max
             => NumberResult.ret = Ok(VNumber(NumInt(FALSE, I64MaxMag)))
        /\ NumberResult.ret = Err("NumberTooBig")
             <=> (NumberResult.ret # Err("InvalidValue")
                    /\ ~IsFinite(F64FromStr(Lexeme)))

\* C8 witness: 9223372036854775808, one past i64::MAX, has been parsed as a Float
C8_Witness ==
    /\ pc = "return"
    /\ json = TextI64MaxPlus1
    /\ ret.kind = "ok"
    /\ ret.v.n.k = "Float"

\* C8 witness of the error: 1e309 has been refused as NumberTooBig
C8_WitnessTooBig ==
    /\ Done
    /\ json = Text1e309
    /\ result = Err("NumberTooBig")

\* the first parse has returned a value and to_string has written its text
Written == Parsed /\ result.kind = "ok" /\ text # <<>>

\* the escape table of C9
TableEscape(byte) ==
    IF byte = 34 THEN <<ch.backslash, ch.quote>>
    ELSE IF byte = 92 THEN <<ch.backslash, ch.backslash>>
    ELSE IF byte = 8 THEN <<ch.backslash, ch.b>>
    ELSE IF byte = 12 THEN <<ch.backslash, ch.f>>
    ELSE IF byte = 10 THEN <<ch.backslash, ch.n>>
    ELSE IF byte = 13 THEN <<ch.backslash, ch.r>>
    ELSE IF byte = 9 THEN <<ch.backslash, ch.t>>
    ELSE IF byte < 32 THEN <<ch.backslash, ch.u, ch.zero, ch.zero,
                             HexUpper(byte \div 16), HexUpper(byte % 16)>>
    ELSE <<byte>>

\* C9: the text of a Value::String is a quote, the table's rendering of each
\* byte of the string in order, and a quote
C9_EscapeTable ==
    (Written /\ result.v.t = "String") =>
        text = <<ch.quote>>
                 \o Concat([i \in 1..Len(result.v.s) |-> TableEscape(result.v.s[i])])
                 \o <<ch.quote>>

\* the members an object text lists, in the order of the text
Keys(log) == {log[i].k : i \in 1..Len(log)}
LastValue(log, key) ==
    log[CHOOSE i \in 1..Len(log) :
          log[i].k = key /\ \A j \in (i + 1)..Len(log) : log[j].k # key].v
Rank(log, key) == 1 + Cardinality({k \in Keys(log) : KeyLess(k, key)})
\* one member per key, with the value of the key's last occurrence, in
\* ascending key order
Canonical(log) ==
    [r \in 1..Cardinality(Keys(log)) |->
        LET key == CHOOSE k \in Keys(log) : Rank(log, k) = r
        IN  [k |-> key, v |-> LastValue(log, key)]]
MemberText(m) == <<ch.quote>> \o m.k \o <<ch.quote, ch.colon>> \o stringify_value(m.v)
TextBA == <<ch.lbrace, ch.quote, ch.b, ch.quote, ch.colon, 49, ch.comma,
            ch.quote, ch.a, ch.quote, ch.colon, 50, ch.rbrace>>
TextAB == <<ch.lbrace, ch.quote, ch.a, ch.quote, ch.colon, 50, ch.comma,
            ch.quote, ch.b, ch.quote, ch.colon, 49, ch.rbrace>>

\* C10: a parsed Object holds each key once, in ascending key order, with the
\* value of the key's last occurrence in the text, and to_string writes the
\* members in that order
C10_Canonical ==
    (Parsed /\ result.kind = "ok" /\ result.v.t = "Object") =>
        LET o == result.v.o
        IN  /\ \A i, j \in 1..Len(o) : i < j => KeyLess(o[i].k, o[j].k)
            /\ o = Canonical(members)
            /\ text # <<>> =>
                 text = <<ch.lbrace>>
                          \o JoinComma([i \in 1..Cardinality(Keys(members)) |->
                                           MemberText(Canonical(members)[i])])
                          \o <<ch.rbrace>>
            /\ (json = TextBA /\ text # <<>>) => text = TextAB

\* C10 witness: {"b":1,"a":2} has been parsed and written as {"a":2,"b":1}
C10_Witness ==
    /\ Written
    /\ json = TextBA
    /\ text = TextAB

\* C10 witness of a repeated key: two members were listed, one is held
C10_WitnessDuplicate ==
    /\ Written
    /\ result.v.t = "Object"
    /\ Len(members) = 2
    /\ Len(result.v.o) = 1
    /\ result.v.o[1].v = members[2].v
    /\ members[1].v # members[2].v

\* the comparison subject == operand has been made
Compared == op = "eq"

\* C11: == answers false for two Values of different variants and for an Int
\* against a Float, true for Null against Null, and for two Arrays it answers
\* whether they have the same length and equal elements at every position
C11_VariantSensitive ==
    Compared =>
        /\ subject.t # operand.t => op_ret = Ok(FALSE)
        /\ (subject.t = "Number" /\ operand.t = "Number" /\ subject.n.k # operand.n.k)
             => op_ret = Ok(FALSE)
        /\ (subject.t = "Null" /\ operand.t = "Null") => op_ret = Ok(TRUE)
        /\ (subject.t = "Array" /\ operand.t = "Array") =>
             op_ret = Ok(/\ Len(subject.a) = Len(operand.a)
                         /\ \A i \in 1..Len(subject.a) :
                              ValueEq(subject.a[i], operand.a[i]) = "true")

\* the keys of a Dict and the value it holds under a key
DictKeys(d) == {d[i].k : i \in 1..Len(d)}
DictValue(d, key) == d[DictFind(d, key)].v

\* C12: == on two Objects answers, without aborting, whether they have the
\* same key set and equal values under every key
C12_ObjectEqTotal ==
    (Compared /\ subject.t = "Object" /\ operand.t = "Object") =>
        op_ret = Ok(/\ DictKeys(subject.o) = DictKeys(operand.o)
                    /\ \A key \in DictKeys(subject.o) :
                         ValueEq(DictValue(subject.o, key),
                                 DictValue(operand.o, key)) = "true")

\* the value of a hex digit in either case, and of four of them
HexValue(b) ==
    IF b \in 48..57 THEN b - 48
    ELSE IF b \in 65..70 THEN b - 55
    ELSE IF b \in 97..102 THEN b - 87
    ELSE 0 - 1
IsEscapeAt(bs, i) ==
    /\ i + 5 < Len(bs)
    /\ At(bs, i) = ch.backslash
    /\ At(bs, i + 1) = ch.u
    /\ \A j \in 2..5 : HexValue(At(bs, i + j)) >= 0
CodeUnitAt(bs, i) ==
    HexValue(At(bs, i + 2)) * 4096 + HexValue(At(bs, i + 3)) * 256
      + HexValue(At(bs, i + 4)) * 16 + HexValue(At(bs, i + 5))
\* the scan of a string literal is at an escape of a high code unit that an
\* escape of a low code unit follows
AtSurrogatePair ==
    /\ pc = "string_loop"
    /\ IsEscapeAt(bytes, i_context)
    /\ CodeUnitAt(bytes, i_context) \in 55296..56319
    /\ IsEscapeAt(bytes, i_context + 6)
    /\ CodeUnitAt(bytes, i_context + 6) \in 56320..57343
PairScalar ==
    65536 + (CodeUnitAt(bytes, i_context) - 55296) * 1024
          + (CodeUnitAt(bytes, i_context + 6) - 56320)

\* C13: at a high code unit's escape followed by a low code unit's escape the
\* scan appends the four UTF-8 bytes of the one scalar the pair stands for,
\* which lies in 0x10000..0x10FFFF, and goes on behind the pair
C13_SurrogatePair ==
    AtSurrogatePair =>
        /\ PairScalar \in 65536..1114111
        /\ DoStringLoop(Cur).pc = "string_loop"
        /\ DoStringLoop(Cur).i_context = i_context + 12
        /\ DoStringLoop(Cur).stack =
             stack \o << 240 + (PairScalar \div 262144),
                         128 + ((PairScalar \div 4096) % 64),
                         128 + ((PairScalar \div 64) % 64),
                         128 + (PairScalar % 64) >>

RECURSIVE ValidToEnd(_, _)
\* from the 0-based index i to the end, bs holds only string content: bytes
\* from 0x20 on other than quote and backslash, two-character escapes,
\* complete \u escapes (a high code unit with its low one), and possibly a
\* backslash as the last byte; no quote closes the literal
ValidToEnd(bs, i) ==
    IF i >= Len(bs) THEN TRUE
    ELSE IF At(bs, i) = ch.quote \/ At(bs, i) < 32 THEN FALSE
    ELSE IF At(bs, i) # ch.backslash THEN ValidToEnd(bs, i + 1)
    ELSE IF i + 1 = Len(bs) THEN TRUE
    ELSE IF At(bs, i + 1) \in {ch.quote, ch.backslash, ch.slash, ch.b, ch.f,
                               ch.n, ch.r, ch.t}
      THEN ValidToEnd(bs, i + 2)
    ELSE IF ~IsEscapeAt(bs, i) THEN FALSE
    ELSE IF CodeUnitAt(bs, i) \in 56320..57343 THEN FALSE
    ELSE IF CodeUnitAt(bs, i) \in 55296..56319
      THEN /\ IsEscapeAt(bs, i + 6)
           /\ CodeUnitAt(bs, i + 6) \in 56320..57343
           /\ ValidToEnd(bs, i + 12)
    ELSE ValidToEnd(bs, i + 6)

\* the input is a string literal that the end of the input cuts short
Unterminated == json # <<>> /\ json[1] = ch.quote /\ ValidToEnd(json, 1)

\* C14: the parse of an unterminated string literal whose content is valid up
\* to the end of the input returns Err(MissQuotationMark)
C14_Unterminated ==
    (pass = 1 /\ Unterminated) =>
        /\ Done => result = Err("MissQuotationMark")
        /\ ~Done => Step(Cur) # Cur

\* C15: the serde adapter's to_string writes, for every Value, the text that
\* the Value's own to_string writes
C15_AdapterSameText ==
    op = "serde_to_string" => op_ret = Ok(stringify_value(subject))

\* the operation applied last, by kind
Read == op \in {"index_usize", "index_str"}
AssignedTo == op \in {"assign_usize", "assign_str", "assign_str_usize"}
ByPosition == op \in {"index_usize", "assign_usize"}
ByKey == op \in {"index_str", "assign_str"}
\* the index or key of the operation is one the Value before it holds
InRange == prior.t = "Array" /\ place.index < Len(prior.a)
Present == prior.t = "Object" /\ place.key \in DictKeys(prior.o)
\* the nested place of v[key][index]
NestedInRange ==
    /\ Present
    /\ DictValue(prior.o, place.key).t = "Array"
    /\ place.index < Len(DictValue(prior.o, place.key).a)

\* C16: a read by position in range or by a key present returns the element
\* or the member's value; every read or assignment of the wrong variant,
\* beyond the length or by an absent key aborts, returns no value and leaves
\* the Value as it was (no member is inserted)
C16_AccessorContract ==
    /\ (op = "index_usize" /\ InRange) => op_ret = Ok(prior.a[place.index + 1])
    /\ (op = "index_str" /\ Present) => op_ret = Ok(DictValue(prior.o, place.key))
    /\ Read => subject = prior
    /\ ((Read \/ AssignedTo) /\ ByPosition /\ ~InRange) => (op_ret = Panic /\ subject = prior)
    /\ ((Read \/ AssignedTo) /\ ByKey /\ ~Present) => (op_ret = Panic /\ subject = prior)
    /\ (op = "assign_str_usize" /\ ~NestedInRange) => (op_ret = Panic /\ subject = prior)
    /\ (AssignedTo /\ op_ret # Panic) =>
         \/ op = "assign_usize" /\ InRange
         \/ op = "assign_str" /\ Present
         \/ op = "assign_str_usize" /\ NestedInRange

\* C16 witness: an assignment by a key the Object does not hold has aborted
C16_Witness ==
    /\ op = "assign_str"
    /\ prior.t = "Object"
    /\ prior.o # <<>>
    /\ place.key \notin DictKeys(prior.o)
    /\ op_ret = Panic
    /\ subject = prior

\* C17: an assignment in range changes the one element or member it names to
\* the Value assigned and nothing else: the other elements and members, the
\* Array's length and the Object's key set are as before
C17_AssignmentFrame ==
    (AssignedTo /\ op_ret # Panic) =>
        /\ op = "assign_usize" =>
             /\ subject.t = "Array"
             /\ Len(subject.a) = Len(prior.a)
             /\ subject.a[place.index + 1] = operand
             /\ \A i \in 1..Len(prior.a) : i # place.index + 1 => subject.a[i] = prior.a[i]
        /\ op \in {"assign_str", "assign_str_usize"} =>
             /\ subject.t = "Object"
             /\ DictKeys(subject.o) = DictKeys(prior.o)
             /\ Len(subject.o) = Len(prior.o)
             /\ \A key \in DictKeys(prior.o) :
                  key # place.key => DictValue(subject.o, key) = DictValue(prior.o, key)
        /\ op = "assign_str" => DictValue(subject.o, place.key) = operand
        /\ op = "assign_str_usize" =>
             LET was == DictValue(prior.o, place.key).a
                 is == DictValue(subject.o, place.key)
             IN  /\ is.t = "Array"
                 /\ Len(is.a) = Len(was)
                 /\ is.a[place.index + 1] = operand
                 /\ \A i \in 1..Len(was) : i # place.index + 1 => is.a[i] = was[i]

\* C17 witness: a second assignment in a row has changed one element of an
\* Array of two, the other element being as before
C17_Witness ==
    /\ op = "assign_usize"
    /\ op_ret # Panic
    /\ operand = VBool(TRUE)
    /\ Len(prior.a) = 2
    /\ place.index = 1
    /\ prior.a[1] = operand
    /\ subject.a = <<operand, operand>>
    /\ prior.a[2] # operand

\* C17 witness of the nested assignment v[key][index] = x
C17_WitnessNested ==
    /\ op = "assign_str_usize"
    /\ op_ret # Panic
    /\ subject # prior

\* the subroutine parse_value selects by the first byte of the remaining bytes
Selected(byte) ==
    CASE byte \in {110, 116, 102} -> "parse_literal"
      [] byte = 34 -> "parse_string_raw"
      [] byte = 91 -> "parse_array"
      [] byte = 123 -> "parse_object"
      [] OTHER -> "parse_number"

\* the three literals: text, value and count of bytes
Literals ==
    { [text |-> <<110, 117, 108, 108>>, value |-> VNull, size |-> 4],
      [text |-> <<116, 114, 117, 101>>, value |-> VBool(TRUE), size |-> 4],
      [text |-> <<102, 97, 108, 115, 101>>, value |-> VBool(FALSE), size |-> 5] }

\* the bytes bs begin with the text w
StartsWith(bs, w) == Len(bs) >= Len(w) /\ SubSeq(bs, 1, Len(w)) = w

\* C18: parse_value at the end of the input returns Err(ExpectValue), and so
\* does the parse of an empty or whitespace-only input; otherwise it selects
\* the subroutine by the first byte and consumes nothing; parse_literal
\* returns Null, Bool(true), Bool(false) exactly when the remaining bytes
\* begin with null, true, false, consuming 4, 4, 5 bytes, and
\* Err(InvalidValue) in every other case
C18_DispatchAndLiterals ==
    [][ /\ (pc = "parse_value" /\ bytes = <<>>)
             => (pc' = "return" /\ ret' = Err("ExpectValue"))
        /\ (pc = "parse_value" /\ bytes # <<>>)
             => (pc' = Selected(bytes[1]) /\ bytes' = bytes)
        /\ pc = "parse_literal"
             => /\ pc' = "return"
                /\ IF \E lit \in Literals : StartsWith(bytes, lit.text)
                     THEN \E lit \in Literals :
                            /\ StartsWith(bytes, lit.text)
                            /\ ret' = Ok(lit.value)
                            /\ bytes' = SubSeq(bytes, lit.size + 1, Len(bytes))
                     ELSE ret' = Err("InvalidValue")
        /\ (pc # "done" /\ pc' = "done" /\ parse_whitespace(Input) = <<>>)
             => result' = Err("ExpectValue")
      ]_vars

\* C18 witness: false, first element of an array, has been parsed as
\* Bool(false) with exactly its 5 bytes consumed
C18_Witness ==
    /\ pc = "return"
    /\ json = <<ch.lbracket>> \o LitFalse \o <<ch.comma>>
    /\ ret = Ok(VBool(FALSE))
    /\ bytes = <<ch.comma>>

\* C18 witness of the errors: a whitespace-only input has been refused as
\* ExpectValue, and nul as InvalidValue
C18_WitnessExpectValue ==
    /\ Done
    /\ json = <<ch.space, ch.space>>
    /\ result = Err("ExpectValue")

C18_WitnessInvalidValue ==
    /\ Done
    /\ json = <<110, 117, 108>>
    /\ result = Err("InvalidValue")

\* the count of ASCII digits of bs that follow its first i bytes
DigitRun(bs, i) ==
    CHOOSE k \in 0..(Len(bs) - i) :
        /\ \A j \in 1..k : bs[i + j] \in 48..57
        /\ (i + k = Len(bs) \/ bs[i + k + 1] \notin 48..57)

\* the parts of the number candidate at the cursor, read left to right: the
\* sign, the integer part, the '.' and its digits, the e or E, its sign and
\* its digits; each Past is the count of bytes up to the end of a part
SignLen == IF bytes[1] = 45 THEN 1 ELSE 0
IntLen == DigitRun(bytes, SignLen)
PastInt == SignLen + IntLen
NoIntDigit == IntLen = 0
LeadingZero == IntLen > 1 /\ bytes[SignLen + 1] = 48
HasDot == PastInt < Len(bytes) /\ bytes[PastInt + 1] = 46
EmptyFraction == HasDot /\ DigitRun(bytes, PastInt + 1) = 0
PastFraction ==
    IF HasDot THEN PastInt + 1 + DigitRun(bytes, PastInt + 1) ELSE PastInt
HasExp == PastFraction < Len(bytes) /\ bytes[PastFraction + 1] \in {101, 69}
HasExpSign ==
    PastFraction + 1 < Len(bytes) /\ bytes[PastFraction + 2] \in {43, 45}
PastExpSign == PastFraction + 1 + (IF HasExpSign THEN 1 ELSE 0)
EmptyExponent == HasExp /\ DigitRun(bytes, PastExpSign) = 0

\* bs[from..to] is one or more digits
AllDigits(bs, from, to) == from <= to /\ \A j \in from..to : bs[j] \in 48..57

\* lex matches -? int (. digits)? ([eE] [+-]? digits)?, int being 0 or a
\* run of digits that does not begin with 0
Grammatical(lex) ==
    \E s \in {0, 1}, i \in 1..Len(lex) :
        /\ s = 1 => lex[1] = 45
        /\ s = 0 => lex[1] # 45
        /\ AllDigits(lex, s + 1, i)
        /\ i > s + 1 => lex[s + 1] # 48
        /\ \E f \in i..Len(lex) :
              /\ f > i => (lex[i + 1] = 46 /\ AllDigits(lex, i + 2, f))
              /\ f < Len(lex) =>
                    /\ lex[f + 1] \in {101, 69}
                    /\ \/ AllDigits(lex, f + 2, Len(lex))
                       \/ /\ f + 2 <= Len(lex)
                          /\ lex[f + 2] \in {43, 45}
                          /\ AllDigits(lex, f + 3, Len(lex))

C19_WitnessFraction ==
    /\ pc = "return"
    /\ json = <<45, 49, 46>>
    /\ bytes = json
    /\ ret = Err("InvalidValue")

C19_WitnessNoDigit ==
    /\ Done
    /\ json = <<43, 49>>
    /\ result = Err("InvalidValue")

C19_WitnessLongest ==
    /\ pc = "return"
    /\ json = <<49, 101, 49, 46>>
    /\ bytes = <<46>>
    /\ ret.kind = "ok"

\* the integer part of the candidate at the cursor is the single digit 0
SingleZero == IntLen = 1 /\ bytes[SignLen + 1] = 48
\* the number 0 accepted with everything after the integer part left
ZeroAndRest ==
    /\ NumberResult.ret = Ok(VNumber(NumInt(FALSE, <<0>>)))
    /\ NumberResult.bytes = SubSeq(bytes, PastInt + 1, Len(bytes))
\* the text 0x0 of tests::parse_root_not_singular
Text0x0 == <<48, 120, 48>>

\* C20 (as stated): an integer part of 0 followed by further digits is
\* refused as RootNotSingular; an integer part of a single 0 followed by any
\* byte that is not a digit is accepted as the number 0 with the rest left;
\* the parse of 0x0 ends in RootNotSingular
C20_LeadingZero ==
    /\ pc = "parse_number" =>
          /\ LeadingZero => NumberResult.ret = Err("RootNotSingular")
          /\ (SingleZero /\ PastInt < Len(bytes)) => ZeroAndRest
    /\ (Done /\ json = Text0x0 /\ pass = 1) => result = Err("RootNotSingular")

\* C20 (amended): as stated, with the byte after the single 0 being neither
\* a digit nor '.', 'e' or 'E', which begin a fraction or an exponent
C20_LeadingZeroOrTrailing ==
    /\ pc = "parse_number" =>
          /\ LeadingZero => NumberResult.ret = Err("RootNotSingular")
          /\ (SingleZero /\ PastInt < Len(bytes)
                 /\ bytes[PastInt + 1] \notin {46, 101, 69}) => ZeroAndRest
          /\ (SingleZero /\ PastInt = Len(bytes)) => ZeroAndRest
    /\ (Done /\ json = Text0x0 /\ pass = 1) => result = Err("RootNotSingular")

\* C20 witness: of 0x0 the lexeme 0 has been accepted as the number 0 with x0
\* left
C20_Witness ==
    /\ pc = "return"
    /\ json = Text0x0
    /\ ret = Ok(VNumber(NumInt(FALSE, <<0>>)))
    /\ bytes = <<120, 48>>

\* C20 witnesses: the parses of 0x0 and of -01 have ended in RootNotSingular,
\* the second with nothing consumed
C20_WitnessTrailing ==
    /\ Done
    /\ json = Text0x0
    /\ result = Err("RootNotSingular")

C20_WitnessLeadingZero ==
    /\ Done
    /\ json = <<45, 48, 49>>
    /\ bytes = json
    /\ result = Err("RootNotSingular")

\* the bytes bs from the first byte on that is not space, tab, LF or CR
SkipWs(bs) ==
    LET k == CHOOSE k \in 0..Len(bs) :
                 /\ \A j \in 1..k : bs[j] \in {32, 9, 10, 13}
                 /\ (k = Len(bs) \/ bs[k + 1] \notin {32, 9, 10, 13})
    IN  SubSeq(bs, k + 1, Len(bs))

\* the first byte of bs is b
Begins(bs, b) == bs # <<>> /\ bs[1] = b

\* the elements parse_array has stored so far
Stored == frames[Len(frames)].arr

\* the array protocol at the opening bracket: ']' gives the empty Array,
\* otherwise a value is parsed next at the first byte that is not whitespace
ArrayOpening ==
    pc = "parse_array" =>
        LET rest == SkipWs(Tail(bytes))
        IN  IF Begins(rest, 93)
              THEN pc' = "return" /\ ret' = Ok(VArray(<<>>)) /\ bytes' = Tail(rest)
                     /\ frames' = frames
              ELSE /\ pc' = "parse_value" /\ bytes' = rest
                   /\ Len(frames') = Len(frames) + 1
                   /\ frames'[Len(frames')].kind = "array"
                   /\ frames'[Len(frames')].arr = <<>>

\* the array protocol after a value: the value is stored behind the earlier
\* ones; ',' goes on to the next value, ']' returns the Array, any other byte
\* or the end of the input is MissCommaOrSquareBracket; a value's error is
\* returned as it is
ArraySeparator ==
    (pc = "return" /\ frames # <<>> /\ Top(Cur).kind = "array") =>
        LET rest == SkipWs(bytes)
            arr == Append(Stored, ret.v)
        IN  /\ Len(frames') >= Len(frames) - 1
            /\ ret.kind = "err" => (pc' = "return" /\ ret' = ret)
            /\ (ret.kind = "ok" /\ Begins(rest, 44)) =>
                 /\ pc' = "parse_value"
                 /\ bytes' = SkipWs(Tail(rest))
                 /\ frames'[Len(frames')].arr = arr
            /\ (ret.kind = "ok" /\ Begins(rest, 93)) =>
                 /\ pc' = "return"
                 /\ ret' = Ok(VArray(arr))
                 /\ bytes' = Tail(rest)
                 /\ frames' = SubSeq(frames, 1, Len(frames) - 1)
            /\ (ret.kind = "ok" /\ ~Begins(rest, 44) /\ ~Begins(rest, 93)) =>
                 /\ pc' = "return"
                 /\ ret' = Err("MissCommaOrSquareBracket")

\* the text [1,]
Text1CommaClose == <<91, 49, 44, 93>>

\* C21: after '[' and whitespace a ']' gives the empty Array and anything
\* else starts a value; the values are stored in input order; after each
\* value and whitespace ',' continues with another value, ']' finishes, and
\* any other byte or the end of the input gives MissCommaOrSquareBracket;
\* [1,] fails with InvalidValue
C21_ArrayProtocol ==
    [][ /\ ArrayOpening
        /\ ArraySeparator
        /\ (pc # "done" /\ pc' = "done" /\ Input = Text1CommaClose)
             => result' = Err("InvalidValue")
      ]_vars

\* parse_object is at a member's key, and at a member's value
AtKey == frames # <<>> /\ Top(Cur).kind = "object" /\ Top(Cur).await = "key"
AtMemberValue ==
    frames # <<>> /\ Top(Cur).kind = "object" /\ Top(Cur).await = "value"

\* the object protocol at the opening brace: '}' gives the empty Object,
\* otherwise a key is parsed next at the first byte that is not whitespace
ObjectOpening ==
    pc = "parse_object" =>
        LET rest == SkipWs(Tail(bytes))
        IN  IF Begins(rest, 125)
              THEN pc' = "return" /\ ret' = Ok(VObject(<<>>)) /\ bytes' = Tail(rest)
                     /\ frames' = frames
              ELSE /\ pc' = "parse_string_raw" /\ bytes' = rest
                   /\ Len(frames') = Len(frames) + 1
                   /\ frames'[Len(frames')].kind = "object"
                   /\ frames'[Len(frames')].await = "key"

\* the object protocol at a member position: a position that does not begin
\* a string fails at once, and every failure of the key is MissKey
ObjectKey ==
    /\ (pc = "parse_string_raw" /\ AtKey /\ ~Begins(bytes, 34))
         => (pc' = "return" /\ ret'.kind = "err")
    /\ (pc = "return" /\ AtKey /\ ret.kind = "err")
         => (pc' = "return" /\ ret' = Err("MissKey"))

\* the object protocol after the key: ':' goes on to the value, anything else
\* is MissColon
ObjectColon ==
    (pc = "return" /\ AtKey /\ ret.kind = "ok") =>
        LET rest == SkipWs(bytes)
        IN  IF Begins(rest, 58)
              THEN /\ pc' = "parse_value"
                   /\ bytes' = SkipWs(Tail(rest))
                   /\ frames'[Len(frames')].await = "value"
                   /\ frames'[Len(frames')].key = ret.v.s
              ELSE pc' = "return" /\ ret' = Err("MissColon")

\* the object protocol after the value: ',' goes on to the next key, '}'
\* returns the Object, any other byte or the end of the input is
\* MissCommaOrCurlyBracket
ObjectSeparator ==
    (pc = "return" /\ AtMemberValue /\ ret.kind = "ok") =>
        LET rest == SkipWs(bytes)
        IN  /\ Begins(rest, 44) =>
                 /\ pc' = "parse_string_raw"
                 /\ bytes' = SkipWs(Tail(rest))
                 /\ frames'[Len(frames')].await = "key"
            /\ Begins(rest, 125) =>
                 /\ pc' = "return"
                 /\ ret'.kind = "ok"
                 /\ ret'.v.t = "Object"
                 /\ bytes' = Tail(rest)
                 /\ frames' = SubSeq(frames, 1, Len(frames) - 1)
            /\ (~Begins(rest, 44) /\ ~Begins(rest, 125)) =>
                 /\ pc' = "return"
                 /\ ret' = Err("MissCommaOrCurlyBracket")

\* C22: after '{' and whitespace a '}' gives the empty Object and anything
\* else starts a member; a member is key string, ':', value, separator in
\* that order; a member position without a well-formed string, the one after
\* a trailing ',' included, gives MissKey; a key not followed by ':' gives
\* MissColon; a value followed by a byte other than ',' and '}', or by the
\* end of the input, gives MissCommaOrCurlyBracket
C22_ObjectProtocol ==
    [][ObjectOpening /\ ObjectKey /\ ObjectColon /\ ObjectSeparator]_vars

\* the bytes \ and u stand at the 0-based index i of bs
IsBackslashU(bs, i) ==
    i + 1 < Len(bs) /\ At(bs, i) = ch.backslash /\ At(bs, i + 1) = ch.u

\* the error the string error taxonomy gives the position i of the literal
\* bs, or "none" where it names none
OffenceAt(bs, i) ==
    IF At(bs, i) < 32 THEN "InvalidStringChar"
    ELSE IF At(bs, i) # ch.backslash \/ i + 1 >= Len(bs) THEN "none"
    ELSE IF At(bs, i + 1) \in {ch.quote, ch.backslash, ch.slash, ch.b, ch.f,
                               ch.n, ch.r, ch.t}
      THEN "none"
    ELSE IF At(bs, i + 1) # ch.u THEN "InvalidStringEscape"
    ELSE IF ~IsEscapeAt(bs, i) THEN "InvalidUnicodeHex"
    ELSE IF CodeUnitAt(bs, i) \in 56320..57343 THEN "InvalidUnicodeSurrogate"
    ELSE IF CodeUnitAt(bs, i) \notin 55296..56319 THEN "none"
    ELSE IF ~IsBackslashU(bs, i + 6) THEN "InvalidUnicodeSurrogate"
    ELSE IF ~IsEscapeAt(bs, i + 6) THEN "InvalidUnicodeHex"
    ELSE IF CodeUnitAt(bs, i + 6) \notin 56320..57343
      THEN "InvalidUnicodeSurrogate"
    ELSE "none"

\* the scan of a string literal is at a byte that is not the closing quote
Scanning ==
    pc = "string_loop" /\ i_context < Len(bytes) /\ At(bytes, i_context) # ch.quote

\* C23: the scan of a string literal returns, at the first position the
\* taxonomy names, the error it names: InvalidStringChar for a raw byte below
\* 0x20, InvalidStringEscape for a backslash before a byte outside
\* " \ / b f n r t u, InvalidUnicodeHex for \u without four hex digits in
\* the first or the second escape of a pair, InvalidUnicodeSurrogate for a
\* high code unit without a low one's escape behind it and for a lone low one
C23_StringErrors ==
    [][ (Scanning /\ OffenceAt(bytes, i_context) # "none")
          => (pc' = "return" /\ ret' = Err(OffenceAt(bytes, i_context))) ]_vars

\* to_string has written the text of a Value::String
StringWritten == op = "to_string" /\ subject.t = "String" /\ op_ret.kind = "ok"

\* C24: the text to_string writes for a Value::String of valid UTF-8 parses,
\* and parses to that Value::String: quotes, backslashes, control bytes, the
\* letters b and f, '/' and multi-byte characters come back as they were
C24_StringRoundTrip ==
    StringWritten => parse_slice(op_ret.v) = Ok(subject)

\* C24 witness: the String of a backspace, the letter b, a quote and a
\* two-byte character has been written as "\u0008\b" and as "\"" followed by
\* the character, and each text parses to its String
C24_Witness ==
    /\ StringWritten
    /\ subject = VString(<<8, 98>>)
    /\ op_ret.v = <<34, 92, 117, 48, 48, 48, 56, 92, 98, 34>>
    /\ parse_slice(op_ret.v) = Ok(subject)
    /\ parse_slice(stringify_value(VString(<<34, 195, 169>>)))
         = Ok(VString(<<34, 195, 169>>))

\* the byte a two-character escape stands for in the decoding table of C25,
\* by the byte behind the backslash
TableDecode(esc) ==
    CASE esc = 34 -> 34
      [] esc = 92 -> 92
      [] esc = 47 -> 47
      [] esc = 98 -> 8
      [] esc = 102 -> 12
      [] esc = 110 -> 10
      [] esc = 114 -> 13
      [] esc = 116 -> 9

\* the UTF-8 bytes of a code point below 0x10000
Utf8Of(c) ==
    IF c < 128 THEN <<c>>
    ELSE IF c < 2048 THEN <<192 + (c \div 64), 128 + (c % 64)>>
    ELSE <<224 + (c \div 4096), 128 + ((c \div 64) % 64), 128 + (c % 64)>>

\* the scan is at a two-character escape of the table
AtTableEscape ==
    /\ Scanning
    /\ At(bytes, i_context) = ch.backslash
    /\ i_context + 1 < Len(bytes)
    /\ At(bytes, i_context + 1) \in {34, 92, 47, 98, 102, 110, 114, 116}

\* the scan is at a \uXXXX escape of a code unit that is not a surrogate,
\* with a byte behind it
AtPlainUnicodeEscape ==
    /\ Scanning
    /\ IsEscapeAt(bytes, i_context)
    /\ i_context + 6 < Len(bytes)
    /\ CodeUnitAt(bytes, i_context) \notin 55296..57343

\* C25: the scan of a string literal decodes each two-character escape to the
\* one byte of the table (\b to 0x08, \f to 0x0C), a \uXXXX that is not a
\* surrogate to the UTF-8 bytes of its code point, and copies every other
\* byte from 0x20 on unchanged
C25_DecodingTable ==
    [][ /\ AtTableEscape =>
             /\ stack' = Append(stack, TableDecode(At(bytes, i_context + 1)))
             /\ i_context' = i_context + 2
        /\ AtPlainUnicodeEscape =>
             /\ stack' = stack \o Utf8Of(CodeUnitAt(bytes, i_context))
             /\ i_context' = i_context + 6
        /\ (Scanning /\ At(bytes, i_context) >= 32
              /\ At(bytes, i_context) # ch.backslash) =>
             /\ stack' = Append(stack, At(bytes, i_context))
             /\ i_context' = i_context + 1
      ]_vars

\* the error kinds a member's value fails with in the inputs of the model
ValueErrors ==
    { "ExpectValue", "MissQuotationMark", "MissCommaOrSquareBracket",
      "NumberTooBig", "RootNotSingular", "InvalidValue", "InvalidStringEscape",
      "MissKey", "MissColon", "MissCommaOrCurlyBracket" }

\* C26: when parse_value returns an error for the value of an object's
\* member, parse_object returns Err(InvalidValue), whatever the error was,
\* and a parse whose root is that object returns Err(InvalidValue)
C26_MemberValueFailure ==
    [][ /\ (pc = "return" /\ AtMemberValue /\ ret.kind = "err") =>
             /\ pc' = "return"
             /\ ret' = Err("InvalidValue")
             /\ frames' = SubSeq(frames, 1, Len(frames) - 1)
        /\ (pc = "return" /\ frames = <<>> /\ ret.kind = "err"
              /\ Begins(SkipWs(Input), 123) /\ raised \in ValueErrors
              /\ raised \notin {"MissKey", "MissColon", "MissCommaOrCurlyBracket"})
             => result' = Err("InvalidValue")
      ]_vars

\* C26 witness: the parse of {"a":01}, whose member's value failed with
\* RootNotSingular, has returned InvalidValue
C26_Witness ==
    /\ Done
    /\ json = <<123, 34, 97, 34, 58, 48, 49, 125>>
    /\ raised = "RootNotSingular"
    /\ result = Err("InvalidValue")

\* C26 witnesses: the same for ExpectValue, MissQuotationMark, NumberTooBig
\* and MissCommaOrSquareBracket
C26_WitnessExpectValue ==
    Done /\ json = <<123, 34, 97, 34, 58>> /\ raised = "ExpectValue"
         /\ result = Err("InvalidValue")

C26_WitnessMissQuotationMark ==
    Done /\ json = <<123, 34, 97, 34, 58, 34, 98>>
         /\ raised = "MissQuotationMark" /\ result = Err("InvalidValue")

C26_WitnessNumberTooBig ==
    Done /\ json = <<123, 34, 97, 34, 58, 49, 101, 51, 48, 57, 125>>
         /\ raised = "NumberTooBig" /\ result = Err("InvalidValue")

C26_WitnessMissComma ==
    Done /\ json = <<123, 34, 97, 34, 58, 91, 49, 32, 50, 93, 125>>
         /\ raised = "MissCommaOrSquareBracket" /\ result = Err("InvalidValue")

\* to_string has written the text of an Object
ObjectWritten == op = "to_string" /\ subject.t = "Object" /\ op_ret.kind = "ok"

\* the text of the Object obj with every key written as stringify_string
\* writes a Value::String
TextWithEscapedKeys(obj) ==
    <<123>>
      \o JoinComma([i \in 1..Len(obj) |->
                      stringify_string(obj[i].k) \o <<58>> \o stringify_value(obj[i].v)])
      \o <<125>>

\* C27: the text to_string writes for an Object has every key escaped as a
\* Value::String is, and Value::parse accepts it and returns an Object with
\* the same keys
C27_KeysEscaped ==
    ObjectWritten =>
        /\ op_ret.v = TextWithEscapedKeys(subject.o)
        /\ parse_slice(op_ret.v).kind = "ok"
        /\ parse_slice(op_ret.v).v.t = "Object"
        /\ DictKeys(parse_slice(op_ret.v).v.o) = DictKeys(subject.o)

\* s is t from some position on
IsSuffix(s, t) ==
    Len(s) <= Len(t) /\ s = SubSeq(t, Len(t) - Len(s) + 1, Len(t))

\* step at the cursor: on remaining bytes it returns the first and leaves
\* the others, on none it returns nothing and leaves none
StepContract ==
    IF bytes = <<>>
      THEN ~step(bytes).some /\ step(bytes).bytes = bytes
      ELSE /\ step(bytes).some
           /\ step(bytes).b = bytes[1]
           /\ step(bytes).bytes = SubSeq(bytes, 2, Len(bytes))

\* C28: the remaining bytes are always a suffix of the input of the parse,
\* and within a parse each step leaves a suffix of what remained before it;
\* step returns the first remaining byte and shortens the rest by one, or
\* returns nothing and changes nothing at the end; a container's opening
\* steps over its bracket; parse_literal and parse_number returning
\* InvalidValue or RootNotSingular leave the remaining bytes as they were
C28_Cursor ==
    /\ [](IsSuffix(bytes, Input) /\ StepContract)
    /\ [][ /\ pass' = pass => IsSuffix(bytes', bytes)
           /\ (pc \in {"parse_array", "parse_object"} /\ pc' # "done")
                => IsSuffix(bytes', SubSeq(bytes, 2, Len(bytes)))
           /\ (pc \in {"parse_literal", "parse_number"}
                 /\ ret' \in {Err("InvalidValue"), Err("RootNotSingular")})
                => bytes' = bytes
         ]_vars

\* C28 witness: in [nul the literal has been refused with the cursor still at
\* its first byte, behind the bracket stepped over
C28_Witness ==
    /\ pc = "return"
    /\ json = <<91, 110, 117, 108>>
    /\ ret = Err("InvalidValue")
    /\ bytes = <<110, 117, 108>>

\* C28 witness: the leading-zero number of {"a":01} has been refused with the
\* cursor at its first byte
C28_WitnessNumber ==
    /\ pc = "return"
    /\ json = <<123, 34, 97, 34, 58, 48, 49, 125>>
    /\ ret = Err("RootNotSingular")
    /\ bytes = <<48, 49, 125>>

\* parse_inplace has returned to its caller
InplaceReturned == op = "parse_inplace" /\ pc = "returned"

\* C30: parse_inplace on an existing Value returns Ok(()) with the Value
\* replaced by the parsed one when the parse succeeded, and returns the
\* parse's error with the Value as it was before the call when it failed
C30_InplaceAtomic ==
    InplaceReturned =>
        /\ result.kind = "ok" => (subject = result.v /\ op_ret = Ok(<<>>))
        /\ result.kind = "err" => (subject = prior /\ op_ret = result)

\* C30 witness: parse_inplace of [1,] on the Array [null] has returned
\* InvalidValue and the Array is still [null]
C30_Witness ==
    /\ InplaceReturned
    /\ json = Text1CommaClose
    /\ prior = VArray(<<VNull>>)
    /\ subject = VArray(<<VNull>>)
    /\ op_ret = Err("InvalidValue")

\* C30 witness of the success: parse_inplace of false on the Array [null] has
\* returned Ok(()) and the Value is Bool(false)
C30_WitnessReplaced ==
    /\ InplaceReturned
    /\ json = LitFalse
    /\ prior = VArray(<<VNull>>)
    /\ subject = VBool(FALSE)
    /\ op_ret = Ok(<<>>)

RECURSIVE Reaches(_, _)
\* the parse that is at s0 comes to s by its own steps alone
Reaches(s0, s) ==
    IF s0 = s THEN TRUE
    ELSE IF s0.pc = "done" \/ Step(s0) = s0 THEN FALSE
    ELSE Reaches(Step(s0), s)

\* thread t is decoding a string literal
Decoding(t) == threads[t].s.pc \in {"string_loop", "string_end"}

\* C29: with the steps of two parses interleaved in any order, each parse is
\* at every moment in a state of its run alone, scratch buffer included, and
\* returns what it returns alone; the scratch buffer is empty when a decode
\* begins, holds bytes only during a decode, and a decode that succeeds
\* takes every byte out of it
C29_Isolation ==
    \A t \in DOMAIN threads :
        LET s == threads[t].s
        IN  /\ Reaches(Start(threads[t].json), s)
            /\ s.pc = "done" => s.result = parse_slice(threads[t].json)
            /\ (s.pc = "string_loop" /\ s.i_context = 1) => s.stack = <<>>
            /\ ~Decoding(t) => s.stack = <<>>
            /\ (s.pc = "string_end" /\ Step(s).ret.kind = "ok") =>
                 /\ Step(s).ret.v.s = s.stack
                 /\ Step(s).stack = <<>>

\* C29 witness: both parses are in the middle of a decode, each with other
\* bytes in its scratch buffer
C29_Witness ==
    /\ DOMAIN threads = {1, 2}
    /\ Decoding(1) /\ Decoding(2)
    /\ threads[1].s.stack # <<>>
    /\ threads[2].s.stack # <<>>
    /\ threads[1].s.stack # threads[2].s.stack

\* C29 witness: both parses have returned, one a String and one an error
C29_WitnessReturned ==
    /\ DOMAIN threads = {1, 2}
    /\ threads[1].s.pc = "done" /\ threads[2].s.pc = "done"
    /\ threads[1].s.result = Ok(VString(<<97, 10>>))
    /\ threads[2].s.result = Err("InvalidStringEscape")
====
